---- MODULE Spec2Model ----
(***************************************************************************)
(* Token Reducer (SillyTavern extension): summarization orchestration,     *)
(* scene/chapter bookkeeping, memory cache and token accounting.           *)
(*                                                                         *)
(* Conventions of the model                                                *)
(*  - A text (message body, summary) is represented by its token count as  *)
(*    the host tokenizer reports it; 0 is the empty string, which is also  *)
(*    JavaScript's falsy "no text".  Two texts are equal iff their counts   *)
(*    are equal.                                                           *)
(*  - Message ids are 0-based as in the source; chat[i + 1] is message i.  *)
(*  - A metadata field that is absent from message.extra holds 0 (texts,   *)
(*    timestamps), FALSE (tr_scene_end) or -1 (tr_scene_start).            *)
(*  - Every handler is one atomic action; the results of the external      *)
(*    generator are inputs of the action.                                  *)
(***************************************************************************)
EXTENDS Integers, Sequences, FiniteSets, TLC

VARIABLES
    chat,          \* context.chat: the host's message sequence
    memoryCache,   \* memory-manager.js: let memoryCache
    lastSceneEnd,  \* memory-manager.js: let lastSceneEnd
    timelineData,  \* memory-manager.js: let timelineData
    tr_timeline,   \* context.chatMetadata.tr_timeline: [present, data]
    settings,      \* settings.js: the fields of `settings` the core reads
    maxContext,    \* context.maxContext
    sepTok,        \* tokens getTokenCountAsync counts for a "\n\n" separator
    now,           \* Date.now()
    lastOp,        \* the last handler run: its name, arguments and result
    run            \* the batch operation in progress: its loop position,
                   \* the generator calls it awaits and what it attempted

vars == <<chat, memoryCache, lastSceneEnd, timelineData, tr_timeline,
          settings, maxContext, sepTok, now, lastOp, run>>

----------------------------------------------------------------------------
(* Bounds                                                                  *)

MaxChat == 2
MaxCache == 1
MaxSceneCache == 2
MaxChapters == 3
MaxTok == 4
NameTok == 1
MaxFillChat == 12
MaxInterval == 6
MaxMemories == 2
MaxPresets == 3
MaxTicks == 2

(* Program constants                                                       *)

CtxReserve == 500
MinInterval == 5
MinWordLen == 3
\* The age in ms that costs one point of score: a day's ms / 0.1.
PenaltyMs == 864000000

\* The non-empty texts the generator returns in the chat specifications.
Texts == {1, 2}
\* generateText's results: 0 is the empty string of every failure path.
GenOut == Texts \cup {0}
\* The message ids the chapters of the timeline specification range over.
ChapterIds == {0, 1}
\* Tokens the tokenizer adds for each "\n\n" separator of a joined text.
SepToks == {0, 1}

----------------------------------------------------------------------------
(* Helpers over sequences                                                  *)

RECURSIVE SumSeq(_)
SumSeq(s) == IF s = <<>> THEN 0 ELSE Head(s) + SumSeq(Tail(s))

RECURSIVE Flatten(_)
Flatten(ss) == IF ss = <<>> THEN <<>> ELSE Head(ss) \o Flatten(Tail(ss))

\* No batch operation has been started.
NoRun ==
    [op |-> "none", pc |-> "idle", err |-> FALSE, targets |-> <<>>, k |-> 0,
     start |-> 0, interval |-> 0, inflight |-> {}, attempted |-> <<>>,
     failed |-> {}, ret |-> 0]

NoOp == [op |-> "none", args |-> <<>>, ret |-> 0, err |-> FALSE, info |-> <<>>,
         trace |-> <<>>]

\* trace lists, in order, what the handler attempted (see Attempt).
OpTrace(name, args, ret, err, info, trace) ==
    [op |-> name, args |-> args, ret |-> ret, err |-> err, info |-> info,
     trace |-> trace]

Op(name, args, ret, err, info) == OpTrace(name, args, ret, err, info, <<>>)

\* One `await summarizeMessage(..)` or `await summarizeScene(..)` of a
\* handler: its target, the number of generateText calls it issued, whether
\* one of them returned the empty string, and whether it threw.  A loop
\* iteration that issues no such call has skipped set.
Attempt(target, calls, failed, threw, skipped) ==
    [target |-> target, calls |-> calls, failed |-> failed, threw |-> threw,
     skipped |-> skipped]

----------------------------------------------------------------------------
(* Message records                                                         *)

NewMessage(body, hidden) ==
    [mes |-> body, is_system |-> hidden, is_user |-> FALSE,
     tr_summary |-> 0, tr_summarized_at |-> 0,
     tr_scene_end |-> FALSE, tr_scene_summary |-> 0, tr_scene_start |-> -1]

\* A message the user wrote.
UserMessage(body, hidden) == [NewMessage(body, hidden) EXCEPT !.is_user = TRUE]

Msg(c, i) == c[i + 1]

ValidId(c, i) == i >= 0 /\ i < Len(c)

SetMsg(c, i, m) == [c EXCEPT ![i + 1] = m]

\* Token count of `${message.name}: ${message.mes}`.
UnitTok(c, i) == NameTok + Msg(c, i).mes

----------------------------------------------------------------------------
(* summarizer.js: read accessors                                           *)

getMessageSummary(c, mesId) ==
    IF ValidId(c, mesId) /\ Msg(c, mesId).tr_summary # 0
    THEN Msg(c, mesId).tr_summary ELSE 0

getSceneSummary(c, mesId) ==
    IF ValidId(c, mesId) /\ Msg(c, mesId).tr_scene_summary # 0
    THEN Msg(c, mesId).tr_scene_summary ELSE 0

isMessageSummarized(c, mesId) ==
    ValidId(c, mesId) /\ Msg(c, mesId).tr_summary # 0

isSceneEnd(c, mesId) ==
    ValidId(c, mesId) /\ Msg(c, mesId).tr_scene_end

\* Scans i = beforeMesId - 1 down to 0; chat[i]?.extra?.tr_scene_end is
\* undefined for an index past the end.
RECURSIVE ScanSceneEnd(_, _)
ScanSceneEnd(c, i) ==
    IF i < 0 THEN -1
    ELSE IF isSceneEnd(c, i) THEN i
    ELSE ScanSceneEnd(c, i - 1)

findLastSceneEnd(c, beforeMesId) == ScanSceneEnd(c, beforeMesId - 1)

----------------------------------------------------------------------------
(* memory-manager.js: the memory cache                                     *)

MemoryEntry(type, mesId, summary, startId, timestamp) ==
    [type |-> type, mesId |-> mesId, summary |-> summary,
     startId |-> startId, timestamp |-> timestamp]

\* storeMemory: pushes the entry (the lorebook write is the host's).
storeMemory(cache, summary, type, mesId, t) ==
    Append(cache, MemoryEntry(type, mesId, summary, -1, t))

\* loadMemoryData's scan of one message.
LoadedOf(c, i, t) ==
    LET m == Msg(c, i) IN
    (IF m.tr_summary # 0
     THEN <<MemoryEntry("message", i, m.tr_summary, -1,
                        IF m.tr_summarized_at # 0 THEN m.tr_summarized_at ELSE t)>>
     ELSE <<>>)
    \o
    (IF m.tr_scene_end
     THEN <<MemoryEntry("scene", i, m.tr_scene_summary, m.tr_scene_start,
                        IF m.tr_summarized_at # 0 THEN m.tr_summarized_at ELSE t)>>
     ELSE <<>>)

RECURSIVE LoadedCache(_, _, _)
LoadedCache(c, i, t) ==
    IF i >= Len(c) THEN <<>> ELSE LoadedOf(c, i, t) \o LoadedCache(c, i + 1, t)

\* The highest index with tr_scene_end, -1 if none.
Watermark(c) == findLastSceneEnd(c, Len(c))

getMemories == memoryCache

----------------------------------------------------------------------------
(* summarizer.js: summarizeMessage                                         *)

\* autoHideSummarizedMessages: hides (hideChatMessageRange) the oldest
\* summarized visible messages, all but the last keep_recent_count.
autoHideSummarizedMessages(c, st) ==
    LET summarized == {i \in 0..(Len(c) - 1) :
                          Msg(c, i).tr_summary # 0 /\ ~Msg(c, i).is_system}
        hideCount  == Cardinality(summarized) - st.keep_recent_count
        toHide     == {i \in summarized :
                          Cardinality({j \in summarized : j <= i}) <= hideCount}
    IN [k \in 1..Len(c) |->
           IF (k - 1) \in toHide THEN [c[k] EXCEPT !.is_system = TRUE] ELSE c[k]]

\* Mutant: an existing summary is kept instead of being overwritten.
summarizeMessageKeepsOld(c, cache, st, t, mesId, g) ==
    IF mesId < 0 \/ mesId >= Len(c)
    THEN [chat |-> c, cache |-> cache, ret |-> 0, err |-> TRUE,
          calls |-> 0, failed |-> FALSE]
    ELSE IF g = 0
    THEN [chat |-> c, cache |-> cache, ret |-> 0, err |-> FALSE,
          calls |-> 1, failed |-> TRUE]
    ELSE [chat |-> IF Msg(c, mesId).tr_summary # 0 THEN c
                   ELSE SetMsg(c, mesId, [Msg(c, mesId) EXCEPT
                                             !.tr_summary = g,
                                             !.tr_summarized_at = t]),
          cache |-> storeMemory(cache, g, "message", mesId, t),
          ret |-> g, err |-> FALSE, calls |-> 1, failed |-> FALSE]

\* Mutant: a produced summary stamps tr_summarized_at on every message.
summarizeMessageStampsAll(c, cache, st, t, mesId, g) ==
    IF mesId < 0 \/ mesId >= Len(c)
    THEN [chat |-> c, cache |-> cache, ret |-> 0, err |-> TRUE,
          calls |-> 0, failed |-> FALSE]
    ELSE IF g = 0
    THEN [chat |-> c, cache |-> cache, ret |-> 0, err |-> FALSE,
          calls |-> 1, failed |-> TRUE]
    ELSE [chat |-> [k \in 1..Len(c) |->
                       IF k = mesId + 1
                       THEN [c[k] EXCEPT !.tr_summary = g,
                                         !.tr_summarized_at = t]
                       ELSE [c[k] EXCEPT !.tr_summarized_at = t]],
          cache |-> storeMemory(cache, g, "message", mesId, t),
          ret |-> g, err |-> FALSE, calls |-> 1, failed |-> FALSE]

\* The outcome of summarizeMessage(mesId) when generateText returns g:
\* the chat and cache after it, the returned text, and whether it threw.
summarizeMessage(c, cache, st, t, mesId, g) ==
    IF mesId < 0 \/ mesId >= Len(c)
    THEN [chat |-> c, cache |-> cache, ret |-> 0, err |-> TRUE,
          calls |-> 0, failed |-> FALSE]
    ELSE IF g = 0
    THEN [chat |-> c, cache |-> cache, ret |-> 0, err |-> FALSE,
          calls |-> 1, failed |-> TRUE]
    ELSE LET c1 == SetMsg(c, mesId, [Msg(c, mesId) EXCEPT
                                        !.tr_summary = g,
                                        !.tr_summarized_at = t])
             c2 == IF st.auto_hide_summarized
                   THEN autoHideSummarizedMessages(c1, st) ELSE c1
         IN [chat |-> c2,
             cache |-> storeMemory(cache, g, "message", mesId, t),
             ret |-> g, err |-> FALSE, calls |-> 1, failed |-> FALSE]

----------------------------------------------------------------------------
(* summarizer.js: summarizeInChunks and summarizeScene                     *)

\* Mutant: a chunk is closed only once it is already over the budget.
RECURSIVE PackFromLate(_, _, _, _, _, _, _)
PackFromLate(c, units, i, maxTokens, chunks, currentChunk, currentTokens) ==
    IF i > Len(units)
    THEN IF Len(currentChunk) > 0 THEN Append(chunks, currentChunk) ELSE chunks
    ELSE LET msgTokens == UnitTok(c, units[i]) IN
         IF currentTokens > maxTokens /\ Len(currentChunk) > 0
         THEN PackFromLate(c, units, i + 1, maxTokens,
                           Append(chunks, currentChunk), <<units[i]>>, msgTokens)
         ELSE PackFromLate(c, units, i + 1, maxTokens,
                           chunks, Append(currentChunk, units[i]),
                           currentTokens + msgTokens)

\* The packing loop of summarizeInChunks over units[i..]: chunks closed so
\* far, the open chunk and its token count.  A unit is a message id.
RECURSIVE PackFrom(_, _, _, _, _, _, _)
PackFrom(c, units, i, maxTokens, chunks, currentChunk, currentTokens) ==
    IF i > Len(units)
    THEN IF Len(currentChunk) > 0 THEN Append(chunks, currentChunk) ELSE chunks
    ELSE LET msgTokens == UnitTok(c, units[i]) IN
         IF currentTokens + msgTokens > maxTokens /\ Len(currentChunk) > 0
         THEN PackFrom(c, units, i + 1, maxTokens,
                       Append(chunks, currentChunk), <<units[i]>>, msgTokens)
         ELSE PackFrom(c, units, i + 1, maxTokens,
                       chunks, Append(currentChunk, units[i]),
                       currentTokens + msgTokens)

PackChunks(c, units, maxTokens) == PackFrom(c, units, 1, maxTokens, <<>>, <<>>, 0)

\* The non-empty chunk summaries, in chunk order; gs[k] is generateText's
\* result for chunk k.
RECURSIVE ChunkSummaries(_, _, _)
ChunkSummaries(gs, k, n) ==
    IF k > n THEN <<>>
    ELSE (IF gs[k] # 0 THEN <<gs[k]>> ELSE <<>>) \o ChunkSummaries(gs, k + 1, n)

\* summarizeInChunks: gc is generateText's result for the combining call.
summarizeInChunks(c, units, maxTokens, gs, gc) ==
    LET chunks == PackChunks(c, units, maxTokens)
        sums   == ChunkSummaries(gs, 1, Len(chunks))
    IN IF Len(sums) > 1 THEN gc
       ELSE IF Len(sums) = 1 THEN sums[1] ELSE 0

\* Mutant: hidden messages are collected too.
RECURSIVE VisibleFromAll(_, _, _)
VisibleFromAll(c, i, endId) ==
    IF i > endId THEN <<>> ELSE <<i>> \o VisibleFromAll(c, i + 1, endId)

\* The ids of the visible messages of i..endId (summarizer.js 238-244).
RECURSIVE VisibleFrom(_, _, _)
VisibleFrom(c, i, endId) ==
    IF i > endId THEN <<>>
    ELSE (IF ~Msg(c, i).is_system THEN <<i>> ELSE <<>>)
         \o VisibleFrom(c, i + 1, endId)

RECURSIVE UnitTokSum(_, _)
UnitTokSum(c, units) ==
    IF units = <<>> THEN 0
    ELSE UnitTok(c, Head(units)) + UnitTokSum(c, Tail(units))

\* Token count of messages.join('\n\n'); sep is what a separator costs.
JoinedTok(c, units, sep) == UnitTokSum(c, units) + sep * (Len(units) - 1)

\* Mutant: tr_scene_start is not written.
MarkSceneNoStart(c, st, t, startId, endId, finalSummary) ==
    LET c1 == SetMsg(c, endId, [Msg(c, endId) EXCEPT
                                   !.tr_scene_end = TRUE,
                                   !.tr_scene_summary = finalSummary,
                                   !.tr_summarized_at = t])
    IN IF st.hide_summarized_scenes
       THEN [k \in 1..Len(c1) |->
                IF startId <= k - 1 /\ k - 1 < endId
                THEN [c1[k] EXCEPT !.is_system = TRUE] ELSE c1[k]]
       ELSE c1

\* Mutant: the end message of the scene is hidden with the others.
MarkSceneHidesEnd(c, st, t, startId, endId, finalSummary) ==
    LET c1 == SetMsg(c, endId, [Msg(c, endId) EXCEPT
                                   !.tr_scene_end = TRUE,
                                   !.tr_scene_summary = finalSummary,
                                   !.tr_scene_start = startId,
                                   !.tr_summarized_at = t])
    IN IF st.hide_summarized_scenes
       THEN [k \in 1..Len(c1) |->
                IF startId <= k - 1 /\ k - 1 <= endId
                THEN [c1[k] EXCEPT !.is_system = TRUE] ELSE c1[k]]
       ELSE c1

\* The writes of a scene summary that was produced (summarizer.js 268-295).
MarkScene(c, st, t, startId, endId, finalSummary) ==
    LET c1 == SetMsg(c, endId, [Msg(c, endId) EXCEPT
                                   !.tr_scene_end = TRUE,
                                   !.tr_scene_summary = finalSummary,
                                   !.tr_scene_start = startId,
                                   !.tr_summarized_at = t])
    IN IF st.hide_summarized_scenes
       THEN [k \in 1..Len(c1) |->
                IF startId <= k - 1 /\ k - 1 < endId
                THEN [c1[k] EXCEPT !.is_system = TRUE] ELSE c1[k]]
       ELSE c1

\* The outcome of summarizeScene(startId, endId): gd is generateText's
\* result for the direct call, gs and gc those of the chunked path.
summarizeScene(c, cache, st, mc, t, startId, endId, sep, gd, gs, gc) ==
    IF startId < 0 \/ endId >= Len(c) \/ startId > endId
    THEN [chat |-> c, cache |-> cache, ret |-> 0, err |-> TRUE,
          chunked |-> FALSE, groups |-> <<>>, tokens |-> 0,
          calls |-> 0, failed |-> FALSE]
    ELSE
    LET messages == VisibleFrom(c, startId, endId) IN
    IF Len(messages) = 0
    THEN [chat |-> c, cache |-> cache, ret |-> 0, err |-> TRUE,
          chunked |-> FALSE, groups |-> <<>>, tokens |-> 0,
          calls |-> 0, failed |-> FALSE]
    ELSE
    LET maxTokens    == mc - CtxReserve
        tokenCount   == JoinedTok(c, messages, sep)
        chunked      == tokenCount > maxTokens
        finalSummary == IF chunked
                        THEN summarizeInChunks(c, messages, maxTokens, gs, gc)
                        ELSE gd
        groups       == IF chunked THEN PackChunks(c, messages, maxTokens)
                        ELSE <<>>
        combined     == Len(ChunkSummaries(gs, 1, Len(groups))) > 1
        calls        == IF chunked
                        THEN Len(groups) + (IF combined THEN 1 ELSE 0)
                        ELSE 1
        failed       == IF chunked
                        THEN \/ \E k \in 1..Len(groups) : gs[k] = 0
                             \/ combined /\ gc = 0
                        ELSE gd = 0
    IN IF finalSummary # 0
       THEN [chat |-> MarkScene(c, st, t, startId, endId, finalSummary),
             cache |-> storeMemory(cache, finalSummary, "scene", endId, t),
             ret |-> finalSummary, err |-> FALSE,
             chunked |-> chunked, groups |-> groups, tokens |-> tokenCount,
             calls |-> calls, failed |-> failed]
       ELSE [chat |-> c, cache |-> cache, ret |-> 0, err |-> FALSE,
             chunked |-> chunked, groups |-> groups, tokens |-> tokenCount,
             calls |-> calls, failed |-> failed]

----------------------------------------------------------------------------
(* summarizer.js: clearAllSummaries and autoFillChapters                   *)

\* Mutant: the scene summary is removed but tr_scene_end stays set.
ClearedMsgKeepsSceneEnd(m) ==
    LET m1 == IF m.tr_summary # 0
              THEN [m EXCEPT !.tr_summary = 0, !.tr_summarized_at = 0] ELSE m
    IN IF m1.tr_scene_summary # 0
       THEN [m1 EXCEPT !.tr_scene_summary = 0,
                       !.tr_scene_start = -1, !.tr_summarized_at = 0]
       ELSE m1

ClearedMsg(m) ==
    LET m1 == IF m.tr_summary # 0
              THEN [m EXCEPT !.tr_summary = 0, !.tr_summarized_at = 0] ELSE m
    IN IF m1.tr_scene_summary # 0
       THEN [m1 EXCEPT !.tr_scene_end = FALSE, !.tr_scene_summary = 0,
                       !.tr_scene_start = -1, !.tr_summarized_at = 0]
       ELSE m1

\* `cleared` is incremented once per kind of summary removed.
ClearedCount(m) ==
    (IF m.tr_summary # 0 THEN 1 ELSE 0) + (IF m.tr_scene_summary # 0 THEN 1 ELSE 0)

RECURSIVE ClearedTotal(_, _)
ClearedTotal(c, i) ==
    IF i >= Len(c) THEN 0 ELSE ClearedCount(Msg(c, i)) + ClearedTotal(c, i + 1)

clearAllSummaries(c) ==
    [chat |-> [k \in 1..Len(c) |-> ClearedMsg(c[k])],
     ret |-> ClearedTotal(c, 0)]

\* summarizer.js 435-441: the indices, ascending, of the messages that are
\* visible and have no summary.
RECURSIVE ToSummarize(_, _)
ToSummarize(c, i) ==
    IF i >= Len(c) THEN <<>>
    ELSE (IF ~Msg(c, i).is_system /\ Msg(c, i).tr_summary = 0
          THEN <<i>> ELSE <<>>) \o ToSummarize(c, i + 1)

\* summarizer.js 450-457: the for loop over toSummarize from its k-th
\* element; gen[i] is the text the generator yields for message i, `trace`
\* has one entry per summarizeMessage call made.
RECURSIVE SummarizeEach(_, _, _, _, _, _, _, _, _)
SummarizeEach(c, cache, st, t, toSummarize, k, summarized, gen, trace) ==
    IF k > Len(toSummarize)
    THEN [chat |-> c, cache |-> cache, ret |-> summarized, err |-> FALSE,
          trace |-> trace]
    ELSE LET mesId == toSummarize[k]
             r == summarizeMessage(c, cache, st, t, mesId, gen[mesId])
             a == Attempt(<<mesId>>, r.calls, r.failed, r.err, FALSE)
         IN IF r.err
            THEN SummarizeEach(c, cache, st, t, toSummarize, k + 1, summarized,
                               gen, Append(trace, a))
            ELSE SummarizeEach(r.chat, r.cache, st, t, toSummarize, k + 1,
                               summarized + 1, gen, Append(trace, a))

summarizeAllMessages(c, cache, st, t, gen) ==
    SummarizeEach(c, cache, st, t, ToSummarize(c, 0), 1, 0, gen, <<>>)

\* The first index of from..to that is a scene end, -1 if none.
RECURSIVE FirstSceneEnd(_, _, _)
FirstSceneEnd(c, from, to) ==
    IF from > to THEN -1
    ELSE IF isSceneEnd(c, from) THEN from
    ELSE FirstSceneEnd(c, from + 1, to)

\* Mutant: after a block whose summarizeScene raised, the loop goes on
\* behind the block.
RECURSIVE FillFromSkipsBlock(_, _, _, _, _, _, _, _, _, _, _)
FillFromSkipsBlock(c, cache, st, mc, t, interval, currentBlockStart, created, sep, gen, trace) ==
    LET potentialEnd == currentBlockStart + interval - 1 IN
    IF currentBlockStart >= Len(c) \/ potentialEnd >= Len(c)
    THEN [chat |-> c, cache |-> cache, ret |-> created, err |-> FALSE,
          trace |-> trace, stop |-> currentBlockStart]
    ELSE LET hit == FirstSceneEnd(c, currentBlockStart, potentialEnd) IN
         IF hit # -1
         THEN FillFromSkipsBlock(c, cache, st, mc, t, interval, hit + 1, created, sep, gen,
                       Append(trace, Attempt(<<currentBlockStart, potentialEnd>>,
                                             0, FALSE, FALSE, TRUE)))
         ELSE LET g == gen[potentialEnd]
                  r == summarizeScene(c, cache, st, mc, t, currentBlockStart,
                                      potentialEnd, sep, g,
                                      [k \in 1..Len(c) |-> g], g)
                  a == Attempt(<<currentBlockStart, potentialEnd>>, r.calls,
                               r.failed, r.err, FALSE)
              IN IF r.err
                 THEN FillFromSkipsBlock(c, cache, st, mc, t, interval,
                               potentialEnd + 1, created, sep, gen,
                               Append(trace, a))
                 ELSE FillFromSkipsBlock(r.chat, r.cache, st, mc, t, interval,
                               potentialEnd + 1, created + 1, sep, gen,
                               Append(trace, a))

\* The while loop of autoFillChapters from currentBlockStart; gen[e] is the
\* text the generator yields for the block that ends at message e. `trace`
\* has one entry per iteration that was entered and did not break: the block
\* currentBlockStart..potentialEnd, skipped when an existing scene end was
\* hit, threw when summarizeScene raised. `stop` is the block start the loop
\* left with.
RECURSIVE FillFrom(_, _, _, _, _, _, _, _, _, _, _)
FillFrom(c, cache, st, mc, t, interval, currentBlockStart, created, sep, gen, trace) ==
    LET potentialEnd == currentBlockStart + interval - 1 IN
    IF currentBlockStart >= Len(c) \/ potentialEnd >= Len(c)
    THEN [chat |-> c, cache |-> cache, ret |-> created, err |-> FALSE,
          trace |-> trace, stop |-> currentBlockStart]
    ELSE LET hit == FirstSceneEnd(c, currentBlockStart, potentialEnd) IN
         IF hit # -1
         THEN FillFrom(c, cache, st, mc, t, interval, hit + 1, created, sep, gen,
                       Append(trace, Attempt(<<currentBlockStart, potentialEnd>>,
                                             0, FALSE, FALSE, TRUE)))
         ELSE LET g == gen[potentialEnd]
                  r == summarizeScene(c, cache, st, mc, t, currentBlockStart,
                                      potentialEnd, sep, g,
                                      [k \in 1..Len(c) |-> g], g)
                  a == Attempt(<<currentBlockStart, potentialEnd>>, r.calls,
                               r.failed, r.err, FALSE)
              IN IF r.err
                 THEN FillFrom(c, cache, st, mc, t, interval,
                               currentBlockStart + 1, created, sep, gen,
                               Append(trace, a))
                 ELSE FillFrom(r.chat, r.cache, st, mc, t, interval,
                               potentialEnd + 1, created + 1, sep, gen,
                               Append(trace, a))

\* Mutant: a short interval returns 0 without an error.
FillRejectedSilent(c, cache) ==
    [chat |-> c, cache |-> cache, ret |-> 0, err |-> FALSE, trace |-> <<>>,
     stop |-> -1]

\* The result of autoFillChapters when the interval check throws.
FillRejected(c, cache) ==
    [chat |-> c, cache |-> cache, ret |-> 0, err |-> TRUE, trace |-> <<>>,
     stop |-> -1]

\* Mutant: every block is one message longer than the interval.
autoFillChaptersLongBlocks(c, cache, st, mc, t, interval, sep, gen) ==
    IF interval < MinInterval
    THEN FillRejected(c, cache)
    ELSE FillFrom(c, cache, st, mc, t, interval + 1, Watermark(c) + 1, 0, sep,
                  gen, <<>>)

autoFillChapters(c, cache, st, mc, t, interval, sep, gen) ==
    IF interval < MinInterval
    THEN FillRejected(c, cache)
    ELSE FillFrom(c, cache, st, mc, t, interval, Watermark(c) + 1, 0, sep, gen,
                  <<>>)

----------------------------------------------------------------------------
(* memory-manager.js: the chapter timeline                                 *)

Chapter(summary, startMsgId, endMsgId) ==
    [summary |-> summary, startMsgId |-> startMsgId, endMsgId |-> endMsgId]

\* saveTimelineData stores the list under chatMetadata.tr_timeline.
Saved(tl) == [present |-> TRUE, data |-> tl]

loadTimelineData(meta) == IF meta.present THEN meta.data ELSE <<>>

addChapter(tl, summary, startMsgId, endMsgId) ==
    Append(tl, Chapter(summary, startMsgId, endMsgId))

\* Mutant: timelineData[chapterNumber], the 0-based index off by one.
updateChapterOffByOne(tl, chapterNumber, newSummary) ==
    IF chapterNumber < 1 \/ chapterNumber > Len(tl)
    THEN [tl |-> tl, ret |-> FALSE]
    ELSE IF chapterNumber = Len(tl) THEN [tl |-> tl, ret |-> TRUE]
    ELSE [tl |-> [tl EXCEPT ![chapterNumber + 1].summary = newSummary],
          ret |-> TRUE]

updateChapter(tl, chapterNumber, newSummary) ==
    IF chapterNumber < 1 \/ chapterNumber > Len(tl)
    THEN [tl |-> tl, ret |-> FALSE]
    ELSE [tl |-> [tl EXCEPT ![chapterNumber].summary = newSummary], ret |-> TRUE]

\* Mutant: splice(chapterNumber, 1), the 0-based index off by one.
removeChapterOffByOne(tl, chapterNumber) ==
    IF chapterNumber < 1 \/ chapterNumber > Len(tl)
    THEN tl
    ELSE IF chapterNumber = Len(tl) THEN tl
    ELSE [k \in 1..(Len(tl) - 1) |->
             IF k < chapterNumber + 1 THEN tl[k] ELSE tl[k + 1]]

\* splice(chapterNumber - 1, 1)
removeChapter(tl, chapterNumber) ==
    IF chapterNumber < 1 \/ chapterNumber > Len(tl)
    THEN tl
    ELSE [k \in 1..(Len(tl) - 1) |->
             IF k < chapterNumber THEN tl[k] ELSE tl[k + 1]]

\* One line per chapter: "Chapter n (Messages s-e): summary".
getTimelineForInjection(tl) ==
    [k \in 1..Len(tl) |->
        [number |-> k, startMsgId |-> tl[k].startMsgId,
         endMsgId |-> tl[k].endMsgId, summary |-> tl[k].summary]]

----------------------------------------------------------------------------
(* memory-manager.js: retrieveRelevantMemories                             *)
(*                                                                         *)
(* Where words matter a text is the sequence of the words split(/\s+/)     *)
(* yields, a word the sequence of its characters; <<>> is the empty text.  *)
(* A score is held as the integer score * PenaltyMs, which is exact; the   *)
(* doubles the code computes are exact too for ages that are multiples of  *)
(* five days.                                                              *)

\* toLowerCase on the characters of the model.
Lower(ch) == IF ch = "C" THEN "c" ELSE ch

ToLowerCase(text) ==
    [k \in 1..Len(text) |-> [j \in 1..Len(text[k]) |-> Lower(text[k][j])]]

\* w.includes(word)
Includes(w, word) ==
    \E o \in 0..(Len(w) - Len(word)) : SubSeq(w, o + 1, o + Len(word)) = word

\* The score the loop over queryWords counts, before the age penalty.
MatchCount(queryWords, summaryWords) ==
    Cardinality({k \in 1..Len(queryWords) :
                    /\ Len(queryWords[k]) >= MinWordLen
                    /\ \E j \in 1..Len(summaryWords) :
                          Includes(summaryWords[j], queryWords[k])})

ScoreOf(memory, queryWords, t) ==
    MatchCount(queryWords, ToLowerCase(memory.summary)) * PenaltyMs
        - (t - memory.timestamp)

\* The fallback query: the body of the last visible user message.
RECURSIVE LastUserMes(_, _)
LastUserMes(c, i) ==
    IF i < 0 THEN <<>>
    ELSE IF Msg(c, i).is_user /\ ~Msg(c, i).is_system THEN Msg(c, i).mes
    ELSE LastUserMes(c, i - 1)

\* Mutant: the comparator is a.score - b.score.
RECURSIVE InsertAscending(_, _)
InsertAscending(x, sorted) ==
    IF sorted = <<>> THEN <<x>>
    ELSE IF Head(sorted).score <= x.score
    THEN <<Head(sorted)>> \o InsertAscending(x, Tail(sorted))
    ELSE <<x>> \o sorted

\* Array.prototype.sort is stable: x goes behind every element that does not
\* score lower (comparator b.score - a.score).
RECURSIVE InsertByScore(_, _)
InsertByScore(x, sorted) ==
    IF sorted = <<>> THEN <<x>>
    ELSE IF Head(sorted).score >= x.score
    THEN <<Head(sorted)>> \o InsertByScore(x, Tail(sorted))
    ELSE <<x>> \o sorted

RECURSIVE SortByScore(_, _, _)
SortByScore(scored, k, sorted) ==
    IF k > Len(scored) THEN sorted
    ELSE SortByScore(scored, k + 1, InsertByScore(scored[k], sorted))

\* The query text the scoring uses: the argument, else the generated query
\* (llmQuery, <<>> when that call fails), else the last user message.
EffectiveQuery(c, st, queryText, llmQuery) ==
    LET q1 == IF st.enable_llm_retrieval /\ queryText = <<>> /\ llmQuery # <<>>
              THEN llmQuery ELSE queryText
    IN IF q1 = <<>> THEN LastUserMes(c, Len(c) - 1) ELSE q1

retrieveRelevantMemories(c, cache, st, t, queryText, llmQuery) ==
    LET q == EffectiveQuery(c, st, queryText, llmQuery) IN
    IF q = <<>> THEN <<>>
    ELSE
    LET queryWords == ToLowerCase(q)
        scored   == [k \in 1..Len(cache) |->
                        [memory |-> cache[k],
                         score |-> ScoreOf(cache[k], queryWords, t)]]
        positive == SelectSeq(scored, LAMBDA x : x.score > 0)
        sorted   == SortByScore(positive, 1, <<>>)
        top      == SubSeq(sorted, 1,
                           IF st.max_retrieved_memories < Len(sorted)
                           THEN st.max_retrieved_memories ELSE Len(sorted))
    IN [k \in 1..Len(top) |-> top[k].memory]

----------------------------------------------------------------------------
(* token-tracker.js: the double arithmetic of savedPercent                 *)
(*                                                                         *)
(* A JavaScript number is an IEEE-754 double: every operation returns the  *)
(* exact result rounded to 53 significant bits, ties to even.  A value is  *)
(* held as a sign, an integer part and FracBits fraction bits, which is    *)
(* exact for the quotients of totals below 2^10.                           *)

SigBits == 53
FracBits == SigBits + 11

Num(neg, ip, fr) == [neg |-> neg, ip |-> ip, fr |-> fr]

ZeroFr == [k \in 1..FracBits |-> 0]

RECURSIVE BitLen(_)
BitLen(n) == IF n = 0 THEN 0 ELSE 1 + BitLen(n \div 2)

\* x rounded to SigBits significant bits, to nearest, ties to even; sticky
\* tells that the exact value has non-zero bits below the last bit of x.fr.
RoundSig(x, sticky) ==
    LET ones == {k \in 1..FracBits : x.fr[k] = 1} IN
    IF x.ip = 0 /\ ones = {} THEN x
    ELSE
    LET cut == IF x.ip > 0 THEN SigBits - BitLen(x.ip)
               ELSE (CHOOSE k \in ones : \A j \in ones : k <= j) + SigBits - 1
    IN IF cut >= FracBits THEN x
       ELSE
       LET rest  == sticky \/ \E k \in (cut + 2)..FracBits : x.fr[k] = 1
           up    == x.fr[cut + 1] = 1 /\ (rest \/ x.fr[cut] = 1)
           zeros == {k \in 1..cut : x.fr[k] = 0}
       IN IF ~up
          THEN [x EXCEPT !.fr = [k \in 1..FracBits |->
                                    IF k <= cut THEN x.fr[k] ELSE 0]]
          ELSE IF zeros = {}
          THEN [x EXCEPT !.ip = x.ip + 1, !.fr = ZeroFr]
          ELSE LET j == CHOOSE k \in zeros : \A i \in zeros : i <= k IN
               [x EXCEPT !.fr = [k \in 1..FracBits |->
                                    IF k < j THEN x.fr[k]
                                    ELSE IF k = j THEN 1 ELSE 0]]

\* 2^k mod o, by repeated squaring
RECURSIVE Pow2Mod(_, _)
Pow2Mod(k, o) ==
    IF k = 0 THEN 1 % o
    ELSE IF k % 2 = 1 THEN (2 * Pow2Mod(k - 1, o)) % o
    ELSE (Pow2Mod(k \div 2, o) * Pow2Mod(k \div 2, o)) % o

\* The remainder of the long division c / o after k fraction bits.
Remainder(c, o, k) == ((c % o) * Pow2Mod(k, o)) % o

\* c / o for integers c >= 0, o > 0
Div(c, o) ==
    RoundSig(Num(FALSE, c \div o,
                 [k \in 1..FracBits |-> (2 * Remainder(c, o, k - 1)) \div o]),
             Remainder(c, o, FracBits) # 0)

\* 1 - x for x >= 0
OneMinus(x) ==
    LET ones == {k \in 1..FracBits : x.fr[k] = 1} IN
    IF x.ip >= 1
    THEN RoundSig(Num(x.ip > 1 \/ ones # {}, x.ip - 1, x.fr), FALSE)
    ELSE IF ones = {} THEN Num(FALSE, 1, ZeroFr)
    ELSE LET t == CHOOSE k \in ones : \A j \in ones : j <= k IN
         RoundSig(Num(FALSE, 0, [k \in 1..FracBits |->
                                    IF k < t THEN 1 - x.fr[k]
                                    ELSE IF k = t THEN 1 ELSE 0]),
                  FALSE)

\* The fraction is multiplied in four limbs of LimbBits bits, the lowest
\* first, each passing its carry to the next.
LimbBits == FracBits \div 4

\* The value of limb n (1 is the highest) of the fraction bits fr.
Limb(fr, n) ==
    SumSeq([j \in 1..LimbBits |->
               fr[LimbBits * (n - 1) + j] * 2^(LimbBits - j)])

\* x * 100
Times100(x) ==
    LET p4 == 100 * Limb(x.fr, 4)
        p3 == 100 * Limb(x.fr, 3) + (p4 \div 2^LimbBits)
        p2 == 100 * Limb(x.fr, 2) + (p3 \div 2^LimbBits)
        p1 == 100 * Limb(x.fr, 1) + (p2 \div 2^LimbBits)
        p  == <<p1, p2, p3, p4>>
    IN RoundSig(Num(x.neg, 100 * x.ip + (p1 \div 2^LimbBits),
                    [k \in 1..FracBits |->
                        (p[(k - 1) \div LimbBits + 1]
                            \div 2^(LimbBits - 1 - ((k - 1) % LimbBits))) % 2]),
                FALSE)

\* Math.round: the nearest integer, a tie going towards +Infinity.
MathRound(x) ==
    IF ~x.neg THEN x.ip + x.fr[1]
    ELSE -(x.ip + (IF x.fr[1] = 1 /\ \E k \in 2..FracBits : x.fr[k] = 1
                   THEN 1 ELSE 0))

\* Math.round((1 - totalWithSummaries / totalOriginal) * 100)
SavedPercent(totalWithSummaries, totalOriginal) ==
    MathRound(Times100(OneMinus(Div(totalWithSummaries, totalOriginal))))

----------------------------------------------------------------------------
(* token-tracker.js: getTokenBreakdown and getTotalSavings                 *)

\* Mutant: hidden messages are part of the breakdown.
RECURSIVE BreakdownFromAll(_, _)
BreakdownFromAll(c, i) ==
    IF i >= Len(c) THEN <<>>
    ELSE LET tokens     == Msg(c, i).mes
             hasSummary == Msg(c, i).tr_summary # 0
         IN <<[mesId |-> i, tokens |-> tokens, hasSummary |-> hasSummary,
               summaryTokens |-> IF hasSummary THEN Msg(c, i).tr_summary ELSE 0,
               savings |-> IF hasSummary THEN tokens - Msg(c, i).tr_summary
                           ELSE 0]>>
            \o BreakdownFromAll(c, i + 1)

RECURSIVE BreakdownFrom(_, _)
BreakdownFrom(c, i) ==
    IF i >= Len(c) THEN <<>>
    ELSE IF Msg(c, i).is_system THEN BreakdownFrom(c, i + 1)
    ELSE LET tokens     == Msg(c, i).mes
             hasSummary == Msg(c, i).tr_summary # 0
         IN <<[mesId |-> i, tokens |-> tokens, hasSummary |-> hasSummary,
               summaryTokens |-> IF hasSummary THEN Msg(c, i).tr_summary ELSE 0,
               savings |-> IF hasSummary THEN tokens - Msg(c, i).tr_summary
                           ELSE 0]>>
            \o BreakdownFrom(c, i + 1)

getTokenBreakdown(c) == BreakdownFrom(c, 0)

getTotalSavings(c, st) ==
    LET breakdown == getTokenBreakdown(c)
        replaced(item) == item.hasSummary /\ st.replace_with_summary
        totalOriginal == SumSeq([k \in 1..Len(breakdown) |-> breakdown[k].tokens])
        totalWithSummaries ==
            SumSeq([k \in 1..Len(breakdown) |->
                       IF replaced(breakdown[k]) THEN breakdown[k].summaryTokens
                       ELSE breakdown[k].tokens])
    IN [original |-> totalOriginal,
        current |-> totalWithSummaries,
        saved |-> totalOriginal - totalWithSummaries,
        savedPercent |-> IF totalOriginal > 0
                         THEN SavedPercent(totalWithSummaries, totalOriginal)
                         ELSE 0,
        summarizedCount |->
            Cardinality({k \in 1..Len(breakdown) : replaced(breakdown[k])}),
        potentialSaved |->
            SumSeq([k \in 1..Len(breakdown) |-> breakdown[k].savings]),
        totalSummaries |->
            Cardinality({k \in 1..Len(breakdown) : breakdown[k].hasSummary})]

----------------------------------------------------------------------------
(* Initial states                                                          *)

Settings(autoHide, keep, hideScenes, replace) ==
    [auto_hide_summarized |-> autoHide, keep_recent_count |-> keep,
     hide_summarized_scenes |-> hideScenes, replace_with_summary |-> replace]

\* settings.js 12-96: defaultSettings, apart from keep_recent_count.
DefaultSettings == Settings(FALSE, 0, FALSE, FALSE)

\* A fresh chat of n visible messages with the given bodies.
FreshChat(n, body) == [k \in 1..n |-> NewMessage(body[k], FALSE)]

\* A context window in which no scene of the model needs chunking.
WideContext == CtxReserve + (MaxChat + 1) * (MaxTok + NameTok + 1)

InitCommon ==
    /\ memoryCache = <<>>
    /\ lastSceneEnd = -1
    /\ timelineData = <<>>
    /\ tr_timeline = [present |-> FALSE, data |-> <<>>]
    /\ now = 1
    /\ lastOp = NoOp
    /\ run = NoRun

----------------------------------------------------------------------------
(* Actions: one per handler or exported operation                          *)

\* summarizeMessage(mesId), as the summarize button, /tr-summarize and the
\* event handlers call it; g is what generateText returns.
SummarizeMessage(mesId, g) ==
    /\ Len(memoryCache) < MaxCache
    /\ LET r == summarizeMessage(chat, memoryCache, settings, now, mesId, g) IN
       /\ chat' = r.chat
       /\ memoryCache' = r.cache
       /\ lastOp' = OpTrace("summarizeMessage", <<mesId>>, r.ret, r.err,
                            getMessageSummary(chat, mesId),
                            <<Attempt(<<mesId>>, r.calls, r.failed, r.err, FALSE)>>)
    /\ UNCHANGED <<lastSceneEnd, timelineData, tr_timeline, settings,
                   maxContext, sepTok, run, now>>

\* messages.js editSummary: the popup's text replaces the summary; a
\* cancelled popup (result === null) changes nothing and is not a step.
EditSummary(mesId, text) ==
    /\ ValidId(chat, mesId)
    /\ chat' = SetMsg(chat, mesId, [Msg(chat, mesId) EXCEPT
                                       !.tr_summary = text,
                                       !.tr_summarized_at = now])
    /\ lastOp' = Op("editSummary", <<mesId>>, text, FALSE, <<>>)
    /\ UNCHANGED <<memoryCache, lastSceneEnd, timelineData, tr_timeline,
                   settings, maxContext, sepTok, run,
                   now>>

ClearAllSummaries ==
    /\ LET r == clearAllSummaries(chat) IN
       /\ chat' = r.chat
       /\ lastOp' = Op("clearAllSummaries", <<>>, r.ret, FALSE, <<>>)
    /\ UNCHANGED <<memoryCache, lastSceneEnd, timelineData, tr_timeline,
                   settings, maxContext, sepTok, run,
                   now>>

\* loadMemoryData: rebuilds the cache and the cached watermark from the chat.
LoadMemoryData ==
    /\ memoryCache' = LoadedCache(chat, 0, now)
    /\ lastSceneEnd' = Watermark(chat)
    /\ lastOp' = Op("loadMemoryData", <<>>, 0, FALSE, lastOp.op)
    /\ UNCHANGED <<chat, timelineData, tr_timeline, settings, maxContext, sepTok, run,
                   now>>

----------------------------------------------------------------------------
(* SpecMsg: per-message summaries on a chat of up to MaxChat messages      *)

InitMsg ==
    /\ InitCommon
    /\ \E n \in 1..MaxChat : chat = FreshChat(n, [k \in 1..n |-> 1])
    /\ \E ah \in BOOLEAN, keep \in 0..1 :
          /\ (~ah => keep = 0)
          /\ settings = Settings(ah, keep, FALSE, FALSE)
    /\ maxContext = WideContext
    /\ sepTok = 0

NextMsg ==
    \/ \E mesId \in -1..Len(chat), g \in GenOut : SummarizeMessage(mesId, g)
    \/ \E mesId \in 0..(Len(chat) - 1), text \in GenOut : EditSummary(mesId, text)
    \/ ClearAllSummaries
    \/ LoadMemoryData

SpecMsg == InitMsg /\ [][NextMsg]_vars

----------------------------------------------------------------------------
(* Scene handlers                                                          *)

SceneInfo(r, startId, units) ==
    [chunked |-> r.chunked, groups |-> r.groups, tokens |-> r.tokens,
     units |-> units, startId |-> startId]

\* The effect of `await summarizeScene(startId, endId)` run by handler
\* `name`; G is the set of texts the generator may return.  Only the
\* generator calls the taken path issues are inputs.
RunScene(name, startId, endId, G) ==
    /\ Len(memoryCache) < MaxSceneCache
    /\ \E probe \in {summarizeScene(chat, memoryCache, settings, maxContext, now,
                                     startId, endId, sepTok, 0,
                                     [k \in 1..Len(chat) |-> 0], 0)} :
       \E gd \in (IF probe.chunked THEN {0} ELSE G),
          gc \in (IF probe.chunked /\ Len(probe.groups) > 1 THEN G ELSE {0}),
          gs \in [1..Len(probe.groups) -> G] :
       \E r \in {summarizeScene(chat, memoryCache, settings, maxContext, now,
                                 startId, endId, sepTok, gd, gs, gc)} :
          /\ chat' = r.chat
          /\ memoryCache' = r.cache
          /\ lastOp' = OpTrace(name, <<startId, endId>>, r.ret, r.err,
                               SceneInfo(r, startId,
                                         IF r.err THEN <<>>
                                         ELSE VisibleFrom(chat, startId, endId)),
                               <<Attempt(<<startId, endId>>, r.calls, r.failed,
                                         r.err, FALSE)>>)
    /\ UNCHANGED <<lastSceneEnd, timelineData, tr_timeline, settings,
                   maxContext, sepTok, run, now>>

\* messages.js 80-89: the scene-end button of rendered message mid.
SceneBtnClick(mid, G) ==
    /\ ValidId(chat, mid)
    /\ RunScene("sceneBtn", findLastSceneEnd(chat, mid) + 1, mid, G)

\* /tr-scene-end <id>: any integer id; an error is returned as text.
TrSceneEnd(mesId, G) ==
    RunScene("trSceneEnd", findLastSceneEnd(chat, mesId) + 1, mesId, G)

SceneOps == {"sceneBtn", "trSceneEnd", "arcPopup", "autoScene"}

\* The handlers that await summarizeMessage or summarizeScene outside any
\* try/catch (messages.js 43-49 and 80-89): what the call throws leaves the
\* handler as an unhandled rejection.
UncaughtOps == {"summarizeBtn", "sceneBtn"}

\* The last handler run ended in an exception that nothing caught.
Escaped(o) == o.err /\ o.op \in UncaughtOps

\* settings.js 503-511, index.js 213: loadTimelineData
LoadTimelineData ==
    /\ timelineData' = loadTimelineData(tr_timeline)
    /\ lastOp' = Op("loadTimelineData", <<>>, 0, FALSE, <<>>)
    /\ UNCHANGED <<chat, memoryCache, lastSceneEnd, tr_timeline, settings,
                   maxContext, sepTok, run, now>>

----------------------------------------------------------------------------
(* SpecScene: scene ends on a chat of up to MaxChat + 1 messages, one      *)
(* generator text, no chunking                                             *)

InitScene ==
    /\ InitCommon
    /\ \E n \in 1..(MaxChat + 1) : chat = FreshChat(n, [k \in 1..n |-> 1])
    /\ \E hs \in BOOLEAN : settings = Settings(FALSE, 0, hs, FALSE)
    /\ maxContext = WideContext
    /\ sepTok = 0

NextScene ==
    \/ \E mid \in 0..(Len(chat) - 1) : SceneBtnClick(mid, {0, 1})
    \/ \E mesId \in -1..Len(chat) : TrSceneEnd(mesId, {0, 1})
    \/ ClearAllSummaries
    \/ LoadMemoryData
    \/ LoadTimelineData

SpecScene == InitScene /\ [][NextScene]_vars

----------------------------------------------------------------------------
(* Spec: message summaries and scene ends together, then cleared and        *)
(* rebuilt; the generator always yields the same text                      *)

Init ==
    /\ InitCommon
    /\ \E n \in 1..MaxChat : chat = FreshChat(n, [k \in 1..n |-> 1])
    /\ \E hs \in BOOLEAN : settings = Settings(FALSE, 0, hs, FALSE)
    /\ maxContext = WideContext
    /\ sepTok = 0

Next ==
    \/ \E mesId \in 0..(Len(chat) - 1) : SummarizeMessage(mesId, 1)
    \/ \E mesId \in 0..(Len(chat) - 1), text \in {0, 1} : EditSummary(mesId, text)
    \/ \E mid \in 0..(Len(chat) - 1) : SceneBtnClick(mid, {1})
    \/ ClearAllSummaries
    \/ LoadMemoryData

Spec == Init /\ [][Next]_vars

----------------------------------------------------------------------------
(* SpecChunk: scene ends on chats whose messages differ in size, under     *)
(* context windows from below the reserve to one that fits every scene     *)

\* Token counts of the message bodies of the chunking specification.
Bodies == {1, MaxTok}

\* maxContext - 500 ranges from -1 (a window below the reserve) to the
\* smallest and the largest unit together, and the window that fits every
\* scene.
ChunkContexts ==
    {CtxReserve + b : b \in -1..(2 * NameTok + MaxTok + 1)} \cup {WideContext}

InitChunk ==
    /\ InitCommon
    /\ \E body \in [1..(MaxChat + 1) -> Bodies] : chat = FreshChat(MaxChat + 1, body)
    /\ \E hs \in BOOLEAN : settings = Settings(FALSE, 0, hs, FALSE)
    /\ maxContext \in ChunkContexts
    /\ sepTok = 1

NextChunk ==
    \E mesId \in -1..Len(chat) : TrSceneEnd(mesId, {0, 1})

SpecChunk == InitChunk /\ [][NextChunk]_vars

----------------------------------------------------------------------------
(* SpecFill: autoFillChapters on chats of up to MaxFillChat messages that  *)
(* were loaded with no scene or with one scene 0..w                        *)

\* autoFillChapters(interval), as /tr-autofill and the settings button call
\* it; g is what generateText returns for every block of this run.
AutoFill(interval, g) ==
    /\ \E r \in {autoFillChapters(chat, memoryCache, settings, maxContext, now,
                                   interval, sepTok,
                                   [e \in 0..(Len(chat) - 1) |-> g])} :
          /\ chat' = r.chat
          /\ memoryCache' = r.cache
          /\ lastOp' = OpTrace("autoFillChapters", <<interval>>, r.ret, r.err,
                               g, r.trace)
    /\ UNCHANGED <<lastSceneEnd, timelineData, tr_timeline, settings,
                   maxContext, sepTok, run, now>>

\* A window that takes two messages of a block, and one that takes a block.
FillContexts ==
    {CtxReserve + 2 * (NameTok + 1), CtxReserve + MaxInterval * (NameTok + 1)}

InitFill ==
    /\ \E hs \in BOOLEAN : settings = Settings(FALSE, 0, hs, FALSE)
    /\ \E n \in 0..MaxFillChat, w \in -1..(MaxFillChat - 1) :
          /\ w < n
          /\ chat = IF w = -1 THEN FreshChat(n, [k \in 1..n |-> 1])
                    ELSE MarkScene(FreshChat(n, [k \in 1..n |-> 1]),
                                   settings, 1, 0, w, 1)
    /\ memoryCache = LoadedCache(chat, 0, 1)
    /\ lastSceneEnd = Watermark(chat)
    /\ timelineData = <<>>
    /\ tr_timeline = [present |-> FALSE, data |-> <<>>]
    /\ maxContext \in FillContexts
    /\ sepTok = 0
    /\ now = 1
    /\ lastOp = NoOp
    /\ run = NoRun

NextFill ==
    \E interval \in (MinInterval - 1)..MaxInterval, g \in {0, 1} :
        AutoFill(interval, g)

SpecFill == InitFill /\ [][NextFill]_vars

----------------------------------------------------------------------------
(* SpecSavings: the savings report over chats with summaries               *)

\* Token counts of the message bodies and of the summaries.
SavBodies == {0, 8, 40}
SavTexts == {0, 17, 45}

\* getTotalSavings(), as updateTokenDisplay and /tr-status call it.
GetTotalSavings ==
    /\ lastOp' = Op("getTotalSavings", <<>>, getTotalSavings(chat, settings),
                    FALSE, <<>>)
    /\ UNCHANGED <<chat, memoryCache, lastSceneEnd, timelineData, tr_timeline,
                   settings, maxContext, sepTok, run, now>>

InitSavings ==
    /\ InitCommon
    /\ \E n \in 1..MaxChat : \E body \in [1..n -> SavBodies] :
          chat = FreshChat(n, body)
    /\ \E replace \in BOOLEAN : settings = Settings(FALSE, 0, FALSE, replace)
    /\ maxContext = WideContext
    /\ sepTok = 0

NextSavings ==
    \/ \E mesId \in 0..(Len(chat) - 1), g \in SavTexts : SummarizeMessage(mesId, g)
    \/ \E mesId \in 0..(Len(chat) - 1), text \in SavTexts : EditSummary(mesId, text)
    \/ GetTotalSavings

SpecSavings == InitSavings /\ [][NextSavings]_vars

----------------------------------------------------------------------------
(* SpecPotential: the savings report over chats with hidden messages and   *)
(* summaries shorter and longer than the message                           *)

\* Token counts of the message bodies and of the edited summaries.
PotBodies == {8, 40}
PotTexts == {0, 17, 45}

InitPotential ==
    /\ InitCommon
    /\ \E n \in 1..MaxChat :
          \E body \in [1..n -> PotBodies], hidden \in [1..n -> BOOLEAN] :
             chat = [k \in 1..n |-> NewMessage(body[k], hidden[k])]
    /\ \E replace \in BOOLEAN : settings = Settings(FALSE, 0, FALSE, replace)
    /\ maxContext = WideContext
    /\ sepTok = 0

NextPotential ==
    \/ \E mesId \in 0..(Len(chat) - 1), text \in PotTexts : EditSummary(mesId, text)
    \/ GetTotalSavings

SpecPotential == InitPotential /\ [][NextPotential]_vars

----------------------------------------------------------------------------
(* SpecTimeline: the chapter list under its exported operations            *)

\* addChapter(summary, startMsgId, endMsgId)
AddChapter(summary, startMsgId, endMsgId) ==
    /\ Len(timelineData) < MaxChapters
    /\ timelineData' = addChapter(timelineData, summary, startMsgId, endMsgId)
    /\ tr_timeline' = Saved(timelineData')
    /\ lastOp' = Op("addChapter", <<startMsgId, endMsgId>>, Len(timelineData'),
                    FALSE, <<>>)
    /\ UNCHANGED <<chat, memoryCache, lastSceneEnd, settings, maxContext, sepTok, run,
                   now>>

\* updateChapter(chapterNumber, newSummary); saves only when in range.
UpdateChapter(chapterNumber, newSummary) ==
    /\ LET r == updateChapter(timelineData, chapterNumber, newSummary) IN
       /\ timelineData' = r.tl
       /\ tr_timeline' = IF r.ret THEN Saved(r.tl) ELSE tr_timeline
       /\ lastOp' = Op("updateChapter", <<chapterNumber>>, r.ret, FALSE,
                       newSummary)
    /\ UNCHANGED <<chat, memoryCache, lastSceneEnd, settings, maxContext, sepTok, run,
                   now>>

\* removeChapter(chapterNumber); saves only when in range.
RemoveChapter(chapterNumber) ==
    /\ timelineData' = removeChapter(timelineData, chapterNumber)
    /\ tr_timeline' = IF chapterNumber < 1 \/ chapterNumber > Len(timelineData)
                      THEN tr_timeline ELSE Saved(timelineData')
    /\ lastOp' = Op("removeChapter", <<chapterNumber>>, 0, FALSE, <<>>)
    /\ UNCHANGED <<chat, memoryCache, lastSceneEnd, settings, maxContext, sepTok, run,
                   now>>

InitTimeline ==
    /\ InitCommon
    /\ chat = FreshChat(Cardinality(ChapterIds), [k \in 1..Cardinality(ChapterIds) |-> 1])
    /\ settings = DefaultSettings
    /\ maxContext = WideContext
    /\ sepTok = 0

NextTimeline ==
    \/ \E summary \in Texts, s \in ChapterIds, e \in ChapterIds :
          s <= e /\ AddChapter(summary, s, e)
    \/ \E k \in 0..(Len(timelineData) + 1), text \in Texts : UpdateChapter(k, text)
    \/ \E k \in 0..(Len(timelineData) + 1) : RemoveChapter(k)
    \/ LoadTimelineData

SpecTimeline == InitTimeline /\ [][NextTimeline]_vars

----------------------------------------------------------------------------
(* SpecDelete: the timeline panel's delete button on chats with scenes     *)

\* settings.js 628-640: the delete button of rendered chapter chapterNum,
\* and the answer to the confirmation popup.
DeleteChapterClick(chapterNum, confirmed) ==
    /\ chapterNum >= 1 /\ chapterNum <= Len(timelineData)
    /\ timelineData' = IF confirmed THEN removeChapter(timelineData, chapterNum)
                       ELSE timelineData
    /\ tr_timeline' = IF confirmed THEN Saved(timelineData') ELSE tr_timeline
    /\ lastOp' = Op("deleteChapter", <<chapterNum>>, confirmed, FALSE,
                    timelineData[chapterNum])
    /\ UNCHANGED <<chat, memoryCache, lastSceneEnd, settings, maxContext, sepTok, run,
                   now>>

InitDelete ==
    /\ InitCommon
    /\ chat = FreshChat(Cardinality(ChapterIds), [k \in 1..Cardinality(ChapterIds) |-> 1])
    /\ \E hs \in BOOLEAN : settings = Settings(FALSE, 0, hs, FALSE)
    /\ maxContext = WideContext
    /\ sepTok = 0

NextDelete ==
    \/ \E mid \in 0..(Len(chat) - 1) : SceneBtnClick(mid, {1})
    \/ \E s \in ChapterIds, e \in ChapterIds : s <= e /\ AddChapter(1, s, e)
    \/ \E k \in 1..Len(timelineData), confirmed \in BOOLEAN :
          DeleteChapterClick(k, confirmed)
    \/ LoadTimelineData

SpecDelete == InitDelete /\ [][NextDelete]_vars

----------------------------------------------------------------------------
(* SpecRetrieve: keyword retrieval over a cache filled at different times  *)

WCat == <<"c", "a", "t">>
WCats == <<"c", "a", "t", "s">>
WUpCat == <<"C", "a", "t">>
WFox == <<"f", "o", "x">>
WOx == <<"o", "x">>

\* The summaries stored and the queries asked; <<WOx, <<>>>> is a query
\* that ends in white space, <<>> no query.
SummaryTexts == {<<WCats, WFox>>, <<WUpCat>>, <<WOx>>}
QueryTexts == {<<WCat, WFox>>, <<WUpCat, WOx>>, <<WFox, WFox>>, <<WOx, <<>>>>, <<>>}
LlmQueries == {<<WFox>>, <<>>}

\* The clock advances in steps of five days.
TickMs == PenaltyMs \div 2

RetrievalSettings(maxRetrieved, llm) ==
    [auto_hide_summarized |-> FALSE, keep_recent_count |-> 0,
     hide_summarized_scenes |-> FALSE, replace_with_summary |-> FALSE,
     max_retrieved_memories |-> maxRetrieved, enable_llm_retrieval |-> llm]

\* storeMemory(summary) as summarizeMessage and summarizeScene call it with
\* the generated text; only the cache entry matters here.
StoreMemory(summary) ==
    /\ Len(memoryCache) < MaxMemories
    /\ memoryCache' = storeMemory(memoryCache, summary, "custom", -1, now)
    /\ lastOp' = Op("storeMemory", <<>>, 0, FALSE, <<>>)
    /\ UNCHANGED <<chat, lastSceneEnd, timelineData, tr_timeline, settings,
                   maxContext, sepTok, run, now>>

Tick ==
    /\ now < 1 + MaxTicks * TickMs
    /\ now' = now + TickMs
    /\ lastOp' = Op("tick", <<>>, 0, FALSE, <<>>)
    /\ UNCHANGED <<chat, memoryCache, lastSceneEnd, timelineData, tr_timeline,
                   settings, maxContext, sepTok, run>>

\* retrieveRelevantMemories(queryText), as /tr-retrieve and
\* injectMemoriesIntoContext call it; llmQuery is what
\* generateRetrievalQuery returns when it is asked.
Retrieve(queryText, llmQuery) ==
    /\ lastOp' = Op("retrieve", <<queryText>>,
                    retrieveRelevantMemories(chat, memoryCache, settings, now,
                                             queryText, llmQuery),
                    FALSE, EffectiveQuery(chat, settings, queryText, llmQuery))
    /\ UNCHANGED <<chat, memoryCache, lastSceneEnd, timelineData, tr_timeline,
                   settings, maxContext, sepTok, run, now>>

InitRetrieve ==
    /\ InitCommon
    /\ chat \in {<<>>, <<UserMessage(<<WCat>>, FALSE), UserMessage(<<WFox>>, TRUE),
                        NewMessage(<<WFox>>, FALSE)>>}
    /\ \E n \in 1..MaxMemories, llm \in BOOLEAN :
          settings = RetrievalSettings(n, llm)
    /\ maxContext = WideContext
    /\ sepTok = 0

NextRetrieve ==
    \/ \E summary \in SummaryTexts : StoreMemory(summary)
    \/ Tick
    \/ \E queryText \in QueryTexts, llmQuery \in LlmQueries :
          Retrieve(queryText, llmQuery)

SpecRetrieve == InitRetrieve /\ [][NextRetrieve]_vars

----------------------------------------------------------------------------
(* SpecErr: summarizeMessage and summarizeScene on valid and invalid       *)
(* targets                                                                 *)

\* summarizeScene(startId, endId) called with any two integers.
SummarizeSceneCall(startId, endId, G) ==
    RunScene("summarizeScene", startId, endId, G)

\* memory-manager.js 800-818: the arc popup's create-chapter button of an
\* arc whose chapterEnd the analysis returned; it starts the scene after
\* the cached watermark.
ArcPopupCreate(chapterEnd, G) ==
    RunScene("arcPopup", lastSceneEnd + 1, chapterEnd, G)

\* The handlers that run summarizeScene(startId, endId).
SceneCalls == SceneOps \cup {"summarizeScene"}

InitErr ==
    /\ InitCommon
    /\ chat = FreshChat(MaxChat + 1, [k \in 1..(MaxChat + 1) |-> 1])
    /\ \E hs \in BOOLEAN : settings = Settings(FALSE, 0, hs, FALSE)
    /\ maxContext = WideContext
    /\ sepTok = 0

NextErr ==
    \/ \E mesId \in -1..Len(chat), g \in {0, 1} : SummarizeMessage(mesId, g)
    \/ \E startId \in -1..Len(chat), endId \in -1..Len(chat) :
          SummarizeSceneCall(startId, endId, {1})
    \/ \E chapterEnd \in -1..Len(chat) : ArcPopupCreate(chapterEnd, {1})
    \/ LoadMemoryData

SpecErr == InitErr /\ [][NextErr]_vars

----------------------------------------------------------------------------
(* SpecBatch: summarizeAllMessages and autoFillChapters with a generator   *)
(* that fails on some targets, after scenes were hidden and cleared        *)

\* The generator's texts for a chat of n messages when it fails (returns
\* the empty text) exactly on the targets in `bad`.
GenFailing(n, bad) == [e \in 0..(n - 1) |-> IF e \in bad THEN 0 ELSE 1]

\* The generator never fails, always fails, or fails on one target.
FailSets(n) == {{}, 0..(n - 1)} \cup {{e} : e \in 0..(n - 1)}

\* The intervals given: none (0), below the minimum, the minimum and above.
BatchIntervals == {0} \cup (MinInterval - 1)..MaxInterval

\* summarizeAllMessages(), as /tr-all and the settings button call it.
SummarizeAll(bad) ==
    /\ Len(memoryCache) < MaxCache
    /\ \E r \in {summarizeAllMessages(chat, memoryCache, settings, now,
                                       GenFailing(Len(chat), bad))} :
          /\ chat' = r.chat
          /\ memoryCache' = r.cache
          /\ lastOp' = OpTrace("summarizeAllMessages", <<>>, r.ret, r.err,
                               [stop |-> Len(chat)], r.trace)
    /\ UNCHANGED <<lastSceneEnd, timelineData, tr_timeline, settings,
                   maxContext, sepTok, run, now>>

\* autoFillChapters(interval) with a generator that fails on the blocks
\* ending at the messages in `bad`.
AutoFillGen(interval, bad) ==
    /\ Len(memoryCache) < MaxCache
    /\ \E r \in {autoFillChapters(chat, memoryCache, settings, maxContext, now,
                                   interval, sepTok,
                                   GenFailing(Len(chat), bad))} :
          /\ chat' = r.chat
          /\ memoryCache' = r.cache
          /\ lastOp' = OpTrace("autoFillChapters", <<interval>>, r.ret, r.err,
                               [stop |-> r.stop], r.trace)
    /\ UNCHANGED <<lastSceneEnd, timelineData, tr_timeline, settings,
                   maxContext, sepTok, run, now>>

\* A window that takes a whole block in one generator call.
BlockContext == CtxReserve + MaxInterval * (NameTok + 1)

InitBatch ==
    /\ InitCommon
    /\ \E n \in {0, MaxFillChat - 1, MaxFillChat} :
          chat = FreshChat(n, [k \in 1..n |-> 1])
    /\ \E hs \in BOOLEAN : settings = Settings(FALSE, 0, hs, FALSE)
    /\ maxContext = BlockContext
    /\ sepTok = 0

NextBatch ==
    \/ \E bad \in FailSets(Len(chat)) : SummarizeAll(bad)
    \/ \E interval \in BatchIntervals, bad \in FailSets(Len(chat)) :
          AutoFillGen(interval, bad)
    \/ ClearAllSummaries
    \/ LoadMemoryData

SpecBatch == InitBatch /\ [][NextBatch]_vars

----------------------------------------------------------------------------
(* SpecSeq: summarizeAllMessages and autoFillChapters step by step, each   *)
(* await of a generator call a point where other handlers can run          *)

\* No batch operation is between its first and its last statement.
Idle == run.pc \in {"idle", "done"}

\* The position of the for loop of summarizeAllMessages after target k.
AfterTarget(r) == IF r.k + 1 > Len(r.targets) THEN "done" ELSE "loop"

\* summarizer.js 427-448: summarizeAllMessages up to its loop: toSummarize
\* is collected; with nothing to summarize it returns 0.
AllStart ==
    /\ Idle
    /\ Len(memoryCache) < MaxCache
    /\ Len(ToSummarize(chat, 0)) <= MaxChat + 1
    /\ run' = [NoRun EXCEPT !.op = "summarizeAllMessages",
                            !.targets = ToSummarize(chat, 0),
                            !.k = 1,
                            !.pc = IF ToSummarize(chat, 0) = <<>>
                                   THEN "done" ELSE "loop"]
    /\ UNCHANGED <<chat, memoryCache, lastSceneEnd, timelineData, tr_timeline,
                   settings, maxContext, sepTok, now, lastOp>>

\* Mutant: the loop starts the call for the next target without awaiting
\* the call it has just issued.
AllCallNoAwait ==
    /\ run.op = "summarizeAllMessages" /\ run.pc = "loop"
    /\ LET mesId == run.targets[run.k] IN
       run' = [run EXCEPT !.attempted = Append(@, <<mesId>>),
                          !.inflight = @ \cup {<<mesId>>},
                          !.k = IF run.k < Len(run.targets) THEN @ + 1 ELSE @,
                          !.pc = IF run.k < Len(run.targets)
                                 THEN "loop" ELSE "await"]
    /\ UNCHANGED <<chat, memoryCache, lastSceneEnd, timelineData, tr_timeline,
                   settings, maxContext, sepTok, now, lastOp>>

\* summarizer.js 450-452 and 177-192: the loop takes its next target and
\* calls summarizeMessage, which throws on an id outside the chat (caught at
\* 454) and otherwise runs up to `await generateText`.
AllCall ==
    /\ run.op = "summarizeAllMessages" /\ run.pc = "loop"
    /\ LET mesId == run.targets[run.k] IN
       IF mesId < 0 \/ mesId >= Len(chat)
       THEN run' = [run EXCEPT !.attempted = Append(@, <<mesId>>),
                               !.k = @ + 1,
                               !.pc = AfterTarget(run)]
       ELSE run' = [run EXCEPT !.attempted = Append(@, <<mesId>>),
                               !.inflight = @ \cup {<<mesId>>},
                               !.pc = "await"]
    /\ UNCHANGED <<chat, memoryCache, lastSceneEnd, timelineData, tr_timeline,
                   settings, maxContext, sepTok, now, lastOp>>

\* summarizer.js 192-220 and 453: generateText returns g; summarizeMessage
\* stores a non-empty summary and returns, the loop counts the message.
AllReturn(g) ==
    /\ run.op = "summarizeAllMessages" /\ run.pc = "await"
    /\ LET mesId == run.targets[run.k] IN
       \E r \in {summarizeMessage(chat, memoryCache, settings, now, mesId, g)} :
          /\ chat' = r.chat
          /\ memoryCache' = r.cache
          /\ run' = [run EXCEPT !.inflight = @ \ {<<mesId>>},
                                !.failed = IF g = 0 THEN @ \cup {<<mesId>>}
                                           ELSE @,
                                !.ret = @ + 1,
                                !.k = @ + 1,
                                !.pc = AfterTarget(run)]
    /\ UNCHANGED <<lastSceneEnd, timelineData, tr_timeline, settings,
                   maxContext, sepTok, now, lastOp>>

\* summarizer.js 514-538: autoFillChapters up to its loop: the interval
\* check, then the scan for the last scene end.
FillStart(interval) ==
    /\ Idle
    /\ Len(memoryCache) < MaxCache
    /\ run' = IF interval < MinInterval
              THEN [NoRun EXCEPT !.op = "autoFillChapters", !.pc = "done",
                                 !.err = TRUE, !.interval = interval]
              ELSE [NoRun EXCEPT !.op = "autoFillChapters", !.pc = "loop",
                                 !.interval = interval,
                                 !.start = Watermark(chat) + 1]
    /\ UNCHANGED <<chat, memoryCache, lastSceneEnd, timelineData, tr_timeline,
                   settings, maxContext, sepTok, now, lastOp>>

\* Whether summarizeScene(startId, endId) throws before its generator call.
SceneThrows(startId, endId) ==
    summarizeScene(chat, memoryCache, settings, maxContext, now, startId, endId,
                   sepTok, 1, [k \in 1..Len(chat) |-> 1], 1).err

\* summarizer.js 540-563 and 229-260: one pass of the while loop up to the
\* await inside summarizeScene: the loop ends, jumps behind an existing
\* scene end, catches the exception of a block without visible message, or
\* awaits the generator call of the block.
FillIterate ==
    /\ run.op = "autoFillChapters" /\ run.pc = "loop"
    /\ LET currentBlockStart == run.start
           potentialEnd == currentBlockStart + run.interval - 1
           hit == FirstSceneEnd(chat, currentBlockStart, potentialEnd)
           block == <<currentBlockStart, potentialEnd>>
       IN run' = IF currentBlockStart >= Len(chat) \/ potentialEnd >= Len(chat)
                 THEN [run EXCEPT !.pc = "done"]
                 ELSE IF hit # -1
                 THEN [run EXCEPT !.start = hit + 1]
                 ELSE IF SceneThrows(currentBlockStart, potentialEnd)
                 THEN [run EXCEPT !.attempted = Append(@, block),
                                  !.start = @ + 1]
                 ELSE [run EXCEPT !.attempted = Append(@, block),
                                  !.inflight = @ \cup {block},
                                  !.pc = "await"]
    /\ UNCHANGED <<chat, memoryCache, lastSceneEnd, timelineData, tr_timeline,
                   settings, maxContext, sepTok, now, lastOp>>

\* summarizer.js 260-297 and 564-565: generateText returns g for the block;
\* summarizeScene marks the scene when g is not empty and returns, the loop
\* counts the block and goes on behind it.
FillReturn(g) ==
    /\ run.op = "autoFillChapters" /\ run.pc = "await"
    /\ LET potentialEnd == run.start + run.interval - 1
           block == <<run.start, potentialEnd>>
       IN \E r \in {summarizeScene(chat, memoryCache, settings, maxContext, now,
                                   run.start, potentialEnd, sepTok, g,
                                   [k \in 1..Len(chat) |-> g], g)} :
             /\ chat' = r.chat
             /\ memoryCache' = r.cache
             /\ run' = [run EXCEPT !.inflight = @ \ {block},
                                   !.failed = IF g = 0 THEN @ \cup {block}
                                              ELSE @,
                                   !.ret = @ + 1,
                                   !.start = potentialEnd + 1,
                                   !.pc = "loop"]
    /\ UNCHANGED <<lastSceneEnd, timelineData, tr_timeline, settings,
                   maxContext, sepTok, now, lastOp>>

InitSeq ==
    /\ InitCommon
    /\ \E n \in {MaxChat + 1, 2 * MinInterval} :
          chat = FreshChat(n, [k \in 1..n |-> 1])
    /\ \E hs \in BOOLEAN : settings = Settings(FALSE, 0, hs, FALSE)
    /\ maxContext = BlockContext
    /\ sepTok = 0

NextSeq ==
    \/ AllStart
    \/ AllCall
    \/ \E g \in {0, 1} : AllReturn(g)
    \/ \E interval \in (MinInterval - 1)..MaxInterval : FillStart(interval)
    \/ FillIterate
    \/ \E g \in {0, 1} : FillReturn(g)
    \/ ClearAllSummaries
    \/ LoadMemoryData

SpecSeq == InitSeq /\ [][NextSeq]_vars

----------------------------------------------------------------------------
(* SpecHide: the auto-hide batch, run by summarizeMessage, on chats in     *)
(* which summaries were edited in and cleared                              *)

InitHide ==
    /\ InitCommon
    /\ chat = FreshChat(MaxChat + 1, [k \in 1..(MaxChat + 1) |-> 1])
    /\ \E keep \in 0..MaxChat : settings = Settings(TRUE, keep, FALSE, FALSE)
    /\ maxContext = WideContext
    /\ sepTok = 0

NextHide ==
    \/ \E mesId \in 0..(Len(chat) - 1), g \in {0, 1} : SummarizeMessage(mesId, g)
    \/ \E mesId \in 0..(Len(chat) - 1), text \in {0, 1} : EditSummary(mesId, text)
    \/ ClearAllSummaries
    \/ LoadMemoryData

SpecHide == InitHide /\ [][NextHide]_vars

----------------------------------------------------------------------------
(* SpecCustom: cache entries supplied out of band (storeMemory without a   *)
(* type, importMemories) and the rebuild of the cache                      *)

\* memory-manager.js 636-660: the entries of `memories` whose mesId is not
\* among the ids the cache had when the import began are pushed; an entry
\* without mesId has the id undefined (-1).
RECURSIVE ImportFrom(_, _, _)
ImportFrom(cache, existingIds, memories) ==
    IF memories = <<>> THEN cache
    ELSE ImportFrom(IF Head(memories).mesId \in existingIds THEN cache
                    ELSE Append(cache, Head(memories)),
                    existingIds, Tail(memories))

importMemories(cache, memories) ==
    ImportFrom(cache, {cache[k].mesId : k \in 1..Len(cache)}, memories)

IsCustom(m) == m.type = "custom"

\* The custom entries of a cache, in order.
CustomEntries(cache) == SelectSeq(cache, IsCustom)

\* The `memories` arrays of the files imported: one custom entry, two custom
\* entries, a message entry with a custom entry.
ImportFiles ==
    {<<MemoryEntry("custom", -1, 1, -1, 1)>>,
     <<MemoryEntry("custom", -1, 1, -1, 1), MemoryEntry("custom", -1, 2, -1, 1)>>,
     <<MemoryEntry("message", 0, 2, -1, 1), MemoryEntry("custom", -1, 2, -1, 1)>>}

\* importMemories(jsonData) with a well-formed file.
ImportMemories(memories) ==
    /\ Len(memoryCache) < MaxMemories
    /\ memoryCache' = importMemories(memoryCache, memories)
    /\ lastOp' = Op("importMemories", <<>>, Len(memories), FALSE, memories)
    /\ UNCHANGED <<chat, lastSceneEnd, timelineData, tr_timeline, settings,
                   maxContext, sepTok, run, now>>

NextCustom ==
    \/ \E summary \in Texts : StoreMemory(summary)
    \/ \E memories \in ImportFiles : ImportMemories(memories)
    \/ \E mesId \in 0..(Len(chat) - 1) : SummarizeMessage(mesId, 1)
    \/ LoadMemoryData

SpecCustom == Init /\ [][NextCustom]_vars

----------------------------------------------------------------------------
(* SpecPreset: settings.js, the preset store in settings.presets           *)

\* A preset name is a sequence of characters; Sp is a blank, Imported the
\* suffix ' (imported)' taken as one character.
Sp == " "
Imported == "(imported)"

RECURSIVE TrimStart(_)
TrimStart(name) ==
    IF name # <<>> /\ Head(name) = Sp THEN TrimStart(Tail(name)) ELSE name

RECURSIVE TrimEnd(_)
TrimEnd(name) ==
    IF name # <<>> /\ name[Len(name)] = Sp
    THEN TrimEnd(SubSeq(name, 1, Len(name) - 1)) ELSE name

\* String.prototype.trim
Trim(name) == TrimEnd(TrimStart(name))

\* settings.js 718-727: every setting but presets and current_preset.
getPresetableSettings(st) ==
    [auto_hide_summarized |-> st.auto_hide_summarized,
     keep_recent_count |-> st.keep_recent_count,
     hide_summarized_scenes |-> st.hide_summarized_scenes,
     replace_with_summary |-> st.replace_with_summary]

Preset(name, timestamp, presetable) ==
    [name |-> name, timestamp |-> timestamp, settings |-> presetable]

\* findIndex(p => p.name === name): the first index, 0 if there is none.
FindPreset(presets, name) ==
    IF \E k \in 1..Len(presets) : presets[k].name = name
    THEN CHOOSE k \in 1..Len(presets) :
            /\ presets[k].name = name
            /\ \A j \in 1..(k - 1) : presets[j].name # name
    ELSE 0

savePreset(st, name, t) ==
    IF Trim(name) = <<>>
    THEN [st |-> st, ret |-> FALSE]
    ELSE LET trimmed == Trim(name)
             existingIndex == FindPreset(st.presets, trimmed)
             preset == Preset(trimmed, t, getPresetableSettings(st))
         IN [st |-> [st EXCEPT
                        !.presets = IF existingIndex > 0
                                    THEN [@ EXCEPT ![existingIndex] = preset]
                                    ELSE Append(@, preset),
                        !.current_preset = trimmed],
             ret |-> TRUE]

loadPreset(st, name) ==
    LET k == FindPreset(st.presets, name) IN
    IF k = 0
    THEN [st |-> st, ret |-> FALSE]
    ELSE [st |-> [st EXCEPT
                     !.auto_hide_summarized =
                         st.presets[k].settings.auto_hide_summarized,
                     !.keep_recent_count =
                         st.presets[k].settings.keep_recent_count,
                     !.hide_summarized_scenes =
                         st.presets[k].settings.hide_summarized_scenes,
                     !.replace_with_summary =
                         st.presets[k].settings.replace_with_summary,
                     !.current_preset = name],
          ret |-> TRUE]

deletePreset(st, name) ==
    LET index == FindPreset(st.presets, name) IN
    IF index = 0
    THEN [st |-> st, ret |-> FALSE]
    ELSE [st |-> [st EXCEPT
                     !.presets = [k \in 1..(Len(@) - 1) |->
                                     IF k < index THEN @[k] ELSE @[k + 1]],
                     !.current_preset = IF @ = name THEN <<>> ELSE @],
          ret |-> TRUE]

\* importPreset of the JSON text of `preset`; a preset without name or
\* without settings is refused.
importPreset(st, preset) ==
    IF preset.name = <<>>
    THEN [st |-> st, ret |-> FALSE]
    ELSE LET named == IF FindPreset(st.presets, preset.name) > 0
                      THEN [preset EXCEPT !.name = Append(@, Imported)]
                      ELSE preset
         IN [st |-> [st EXCEPT !.presets = Append(@, named)], ret |-> TRUE]

\* The names typed into the preset name field.
PresetNames == {<<>>, <<Sp>>, <<"A">>, <<Sp, "A", Sp>>, <<"B">>}

\* The presets of the files imported: an exported preset A, one without
\* name.
PresetFiles ==
    {Preset(<<"A">>, 0, getPresetableSettings(DefaultSettings)),
     Preset(<<>>, 0, getPresetableSettings(DefaultSettings))}

PresetStep(name, args, r) ==
    /\ settings' = r.st
    /\ lastOp' = Op(name, args, r.ret, FALSE, <<>>)
    /\ UNCHANGED <<chat, memoryCache, lastSceneEnd, timelineData, tr_timeline,
                   maxContext, sepTok, run, now>>

SavePreset(name) ==
    /\ Len(settings.presets) < MaxPresets
    /\ PresetStep("savePreset", <<name>>, savePreset(settings, name, now))

LoadPreset(name) ==
    PresetStep("loadPreset", <<name>>, loadPreset(settings, name))

DeletePreset(name) ==
    PresetStep("deletePreset", <<name>>, deletePreset(settings, name))

ImportPreset(preset) ==
    /\ Len(settings.presets) < MaxPresets
    /\ PresetStep("importPreset", <<preset.name>>, importPreset(settings, preset))

\* settings.js 697-704: setSetting('hide_summarized_scenes', value)
SetHideScenes(value) ==
    /\ settings' = [settings EXCEPT !.hide_summarized_scenes = value]
    /\ lastOp' = Op("setSetting", <<>>, TRUE, FALSE, <<>>)
    /\ UNCHANGED <<chat, memoryCache, lastSceneEnd, timelineData, tr_timeline,
                   maxContext, sepTok, run, now>>

InitPreset ==
    /\ InitCommon
    /\ chat = <<>>
    /\ settings = [auto_hide_summarized |-> FALSE, keep_recent_count |-> 0,
                   hide_summarized_scenes |-> FALSE,
                   replace_with_summary |-> FALSE,
                   presets |-> <<>>, current_preset |-> <<>>]
    /\ maxContext = WideContext
    /\ sepTok = 0

NextPreset ==
    \/ \E name \in PresetNames : SavePreset(name)
    \/ \E name \in PresetNames \cup {<<"A", Imported>>} : LoadPreset(name)
    \/ \E name \in PresetNames \cup {<<"A", Imported>>} : DeletePreset(name)
    \/ \E preset \in PresetFiles : ImportPreset(preset)
    \/ \E value \in BOOLEAN : SetHideScenes(value)

SpecPreset == InitPreset /\ [][NextPreset]_vars

----------------------------------------------------------------------------
(* SpecRate: summarizer.js, the rate limiter in front of the generator,    *)
(* under a caller that awaits each generateText before it issues the next, *)
(* with time in milliseconds and the rate limit edited between the steps   *)

\* summarizer.js 18: the floor of the delay, the length of a minute and
\* the rate used when settings.rate_limit is falsy.
MinDelayMs == 500
MinuteMs == 60000
DefaultRate == 60

\* Date.now() when the first call is made: later than any delay after the
\* initial lastGenTimestamp of 0, so that the first call never waits.
StartMs == 100000

\* The calls one behavior issues.
MaxCalls == 2

\* settings.js 306-310: rate_limit is parseInt(..) || 0, any integer.
RateLimits == {-1, 0, 7, 60, 200}

\* The time, in milliseconds, that passes between two steps.
ElapseMs == {1, 499, 1000, 9000}

RateSettings(rate, profile) ==
    [auto_hide_summarized |-> FALSE, keep_recent_count |-> 0,
     hide_summarized_scenes |-> FALSE, replace_with_summary |-> FALSE,
     rate_limit |-> rate, summarization_profile |-> profile]

\* summarizer.js 12 and the position of the caller in generateText:
\* lastGenTimestamp, the value it had before the last request (prev), the
\* rate limit read by the call, the time the timer is due, whether the
\* call waited, and the calls and time steps counted so far.
NoGen ==
    [op |-> "generateText", pc |-> "idle", lastGenTimestamp |-> 0,
     prev |-> 0, rate |-> 0, due |-> 0, waited |-> FALSE, calls |-> 0,
     ticks |-> 0]

\* Mutant: the delay is 60000 / rate without the floor of 500 ms.
getDelayMsNoFloor(st) ==
    LET rate == IF st.rate_limit = 0 THEN DefaultRate ELSE st.rate_limit
    IN IF rate > 0 THEN <<MinuteMs, rate>> ELSE <<MinDelayMs, 1>>

\* summarizer.js 17-19: getDelayMs, Math.max(500, 60000 / Number(
\* settings.rate_limit || 60)), as the exact fraction <<num, den>>; a
\* negative rate gives a negative quotient, hence 500.
getDelayMs(st) ==
    LET rate == IF st.rate_limit = 0 THEN DefaultRate ELSE st.rate_limit
    IN IF rate > 0 /\ MinuteMs > MinDelayMs * rate
       THEN <<MinuteMs, rate>> ELSE <<MinDelayMs, 1>>

\* summarizer.js 25-26: `delay > 0` for delay = getDelayMs() - (Date.now()
\* - lastGenTimestamp).
DelayPositive(d, t, last) == d[1] > (t - last) * d[2]

\* summarizer.js 27: setTimeout(resolve, delay) called at time t resolves
\* no earlier than delay milliseconds later; on the millisecond clock of
\* Date.now() the first reading at which it can have resolved.
TimerDue(d, last) == last + ((d[1] + d[2] - 1) \div d[2])

RateStep(name, r, info) ==
    /\ run' = r
    /\ lastOp' = Op(name, <<>>, 0, FALSE, info)
    /\ UNCHANGED <<chat, memoryCache, lastSceneEnd, timelineData, tr_timeline,
                   settings, maxContext, sepTok>>

\* summarizer.js 58-80 and 24-30: generateText up to its first await.  With
\* no chat or no profile it returns '' at once; otherwise waitForRateLimit
\* either awaits the timer or, with no delay left, records Date.now() and
\* the request is sent.
GenerateTextCall ==
    /\ run.pc = "idle"
    /\ run.calls < MaxCalls
    /\ now' = now
    /\ \E d \in {getDelayMs(settings)} :
          IF chat = <<>> \/ ~settings.summarization_profile
          THEN RateStep("generateText", [run EXCEPT !.calls = @ + 1], "refused")
          ELSE IF DelayPositive(d, now, run.lastGenTimestamp)
          THEN RateStep("generateText",
                        [run EXCEPT !.calls = @ + 1, !.pc = "wait",
                                    !.rate = settings.rate_limit,
                                    !.due = TimerDue(d, run.lastGenTimestamp)],
                        "wait")
          ELSE RateStep("generateText",
                        [run EXCEPT !.calls = @ + 1, !.pc = "request",
                                    !.rate = settings.rate_limit,
                                    !.waited = FALSE,
                                    !.prev = run.lastGenTimestamp,
                                    !.lastGenTimestamp = now],
                        "request")

\* summarizer.js 27-29 and 81-107: the timer resolves, on time or late,
\* lastGenTimestamp becomes Date.now() and the request is sent.
TimerFires(late) ==
    /\ run.pc = "wait"
    /\ now' = (IF now > run.due THEN now ELSE run.due) + late
    /\ RateStep("timer",
                [run EXCEPT !.pc = "request", !.waited = TRUE,
                            !.prev = run.lastGenTimestamp,
                            !.lastGenTimestamp = now'],
                "request")

\* summarizer.js 98-122: the request resolves or throws, and generateText
\* returns to its caller.
GenerateTextReturn ==
    /\ run.pc = "request"
    /\ now' = now
    /\ RateStep("generateTextReturn", [run EXCEPT !.pc = "idle"], "return")

\* Time passes: between two calls, while the timer runs and while the
\* request is out.
Elapse(ms) ==
    /\ run.ticks < MaxTicks
    /\ now' = now + ms
    /\ RateStep("elapse", [run EXCEPT !.ticks = @ + 1], "elapse")

\* settings.js 306-310: the input handler of #tr_rate_limit.
SetRateLimit(value) ==
    /\ settings.rate_limit # value
    /\ settings' = [settings EXCEPT !.rate_limit = value]
    /\ lastOp' = Op("setRateLimit", <<value>>, 0, FALSE, <<>>)
    /\ UNCHANGED <<chat, memoryCache, lastSceneEnd, timelineData, tr_timeline,
                   maxContext, sepTok, now, run>>

InitRate ==
    /\ memoryCache = <<>>
    /\ lastSceneEnd = -1
    /\ timelineData = <<>>
    /\ tr_timeline = [present |-> FALSE, data |-> <<>>]
    /\ lastOp = NoOp
    /\ \E n \in {0, 1} : chat = FreshChat(n, [k \in 1..n |-> 1])
    /\ \E rate \in RateLimits, profile \in BOOLEAN :
          settings = RateSettings(rate, profile)
    /\ maxContext = WideContext
    /\ sepTok = 0
    /\ now = StartMs
    /\ run = NoGen

NextRate ==
    \/ GenerateTextCall
    \/ \E late \in {0, 3} : TimerFires(late)
    \/ GenerateTextReturn
    \/ \E ms \in ElapseMs : Elapse(ms)
    \/ \E value \in RateLimits : SetRateLimit(value)

SpecRate == InitRate /\ [][NextRate]_vars

----------------------------------------------------------------------------
(* SpecRace: the event handlers of index.js and summarizeAllMessages as    *)
(* tasks on one thread, each suspended at `await generateText` of the      *)
(* summarizeMessage call it made, where any other handler can start or     *)
(* resume                                                                   *)

\* The handler instances one behavior starts.
MaxTasks == 2

\* settings.js 12-96: the switches the handlers read.  Swipe and continue
\* re-summarization and scene mode are off, so that
\* onCharacterMessageRendered goes straight to its auto-summarize loop.
RaceSettings(onEdit, auto) ==
    [auto_hide_summarized |-> FALSE, keep_recent_count |-> 0,
     hide_summarized_scenes |-> FALSE, replace_with_summary |-> FALSE,
     enable_message_summary |-> TRUE, auto_summarize_on_edit |-> onEdit,
     auto_summarize |-> auto, auto_summarize_user |-> FALSE,
     summary_delay_messages |-> 1, auto_summarize_on_swipe |-> FALSE,
     auto_summarize_on_continue |-> FALSE, enable_scene_mode |-> FALSE]

\* The tasks started so far, in the order of their start.
NoTasks == [op |-> "handlers", tasks |-> <<>>]

Task(name, pc, mesId, targets, k, cur) ==
    [op |-> name, pc |-> pc, mesId |-> mesId, targets |-> targets, k |-> k,
     cur |-> cur]

\* index.js 173-184: the next index from i on that the auto-summarize loop
\* of onCharacterMessageRendered(cur) summarizes, -1 when the loop ends.
RECURSIVE NextAuto(_, _, _, _)
NextAuto(c, st, cur, i) ==
    IF ~(i < cur - (IF st.summary_delay_messages = 0
                    THEN 5 ELSE st.summary_delay_messages) /\ i < Len(c))
    THEN -1
    ELSE IF \/ Msg(c, i).tr_summary # 0
            \/ Msg(c, i).is_system
            \/ (Msg(c, i).is_user /\ ~st.auto_summarize_user)
    THEN NextAuto(c, st, cur, i + 1)
    ELSE i

\* A task runs, without suspending, from loop position k to the
\* `await generateText` of its next summarizeMessage call or to its end.
\* summarizeAllMessages (summarizer.js 450-457) takes toSummarize[k] as it
\* was collected; the auto-summarize loop reads the chat as it is now.
RunToAwait(t, c, st, k) ==
    IF t.op = "summarizeAllMessages"
    THEN IF k > Len(t.targets)
         THEN [t EXCEPT !.pc = "done", !.k = k, !.mesId = -1]
         ELSE [t EXCEPT !.pc = "await", !.k = k, !.mesId = t.targets[k]]
    ELSE IF t.op = "rendered"
    THEN LET i == NextAuto(c, st, t.cur, k) IN
         IF i = -1 THEN [t EXCEPT !.pc = "done", !.k = k, !.mesId = -1]
         ELSE [t EXCEPT !.pc = "await", !.k = i, !.mesId = i]
    ELSE [t EXCEPT !.pc = "done", !.mesId = -1]

StartTask(name, args, started, t) ==
    /\ Len(run.tasks) < MaxTasks
    /\ run' = IF started THEN [run EXCEPT !.tasks = Append(@, t)] ELSE run
    /\ lastOp' = Op(name, args, 0, FALSE, <<>>)
    /\ UNCHANGED <<chat, memoryCache, lastSceneEnd, timelineData, tr_timeline,
                   settings, maxContext, sepTok, now>>

\* index.js 252-266 and summarizer.js 177-192: the MESSAGE_EDITED handler.
\* With the switches on and a summary on the message it calls
\* summarizeMessage(mesId), which suspends in generateText.
MessageEdited(mesId) ==
    StartTask("MESSAGE_EDITED", <<mesId>>,
              /\ settings.enable_message_summary
              /\ settings.auto_summarize_on_edit
              /\ ValidId(chat, mesId)
              /\ Msg(chat, mesId).tr_summary # 0,
              Task("edited", "await", mesId, <<>>, 0, -1))

\* summarizer.js 427-452: summarizeAllMessages up to the first
\* `await summarizeMessage`, as the /tr-all command (789-799) calls it;
\* the command can be issued while an earlier run is suspended.
SummarizeAllStart ==
    StartTask("summarizeAllMessages", <<>>, TRUE,
              RunToAwait(Task("summarizeAllMessages", "loop", -1,
                              ToSummarize(chat, 0), 1, -1),
                         chat, settings, 1))

\* index.js 107-186: onCharacterMessageRendered(mesId) up to the first
\* `await summarizeMessage(i)` of its auto-summarize loop.
CharacterMessageRendered(mesId) ==
    StartTask("CHARACTER_MESSAGE_RENDERED", <<mesId>>,
              settings.enable_message_summary /\ settings.auto_summarize,
              RunToAwait(Task("rendered", "loop", -1, <<>>, 0, mesId),
                         chat, settings, 0))

\* summarizer.js 192-220: generateText returns g to the summarizeMessage
\* call of task n, which stores a non-empty summary; the task then runs to
\* its next await or to its end.
GenerateReturn(n, g) ==
    /\ n \in 1..Len(run.tasks)
    /\ run.tasks[n].pc = "await"
    /\ \E r \in {summarizeMessage(chat, memoryCache, settings, now,
                                  run.tasks[n].mesId, g)} :
          /\ chat' = r.chat
          /\ memoryCache' = r.cache
          /\ run' = [run EXCEPT !.tasks[n] =
                        RunToAwait(run.tasks[n], r.chat, settings,
                                   run.tasks[n].k + 1)]
    /\ lastOp' = Op("summarizeMessage", <<run.tasks[n].mesId>>, g, FALSE,
                    <<n, Msg(chat, run.tasks[n].mesId).tr_summary>>)
    /\ UNCHANGED <<lastSceneEnd, timelineData, tr_timeline, settings,
                   maxContext, sepTok, now>>

InitRace ==
    /\ lastSceneEnd = -1
    /\ timelineData = <<>>
    /\ tr_timeline = [present |-> FALSE, data |-> <<>>]
    /\ now = 1
    /\ lastOp = NoOp
    /\ \E first \in {0, 1} :
          chat = [k \in 1..(MaxChat + 1) |->
                     IF k = 1 /\ first # 0
                     THEN [NewMessage(1, FALSE) EXCEPT !.tr_summary = first,
                                                       !.tr_summarized_at = 1]
                     ELSE NewMessage(1, FALSE)]
    /\ memoryCache = LoadedCache(chat, 0, now)
    /\ \E onEdit \in BOOLEAN, auto \in BOOLEAN :
          settings = RaceSettings(onEdit, auto)
    /\ maxContext = WideContext
    /\ sepTok = 0
    /\ run = NoTasks

NextRace ==
    \/ \E mesId \in 0..(Len(chat) - 1) : MessageEdited(mesId)
    \/ SummarizeAllStart
    \/ \E mesId \in 0..(Len(chat) - 1) : CharacterMessageRendered(mesId)
    \/ \E n \in 1..MaxTasks, g \in GenOut : GenerateReturn(n, g)

SpecRace == InitRace /\ [][NextRace]_vars

----------------------------------------------------------------------------
(* SpecFrame: the operations that write to the chat, on chats whose        *)
(* messages differ in author and body, with auto-hide and scene hiding on  *)
(* and off                                                                  *)

\* A chat of n messages: the user and the character alternate and message
\* k has a body of k tokens, so that no two records are alike.
MixedChat(n) ==
    [k \in 1..n |-> IF k % 2 = 1 THEN UserMessage(k, FALSE)
                    ELSE NewMessage(k, FALSE)]

\* A window that takes every range of the chat in one generator call.
FrameContext == CtxReserve + (MinInterval + 1) * (NameTok + MinInterval + 2)

\* The message ids given to the single-target operations: the messages of
\* the short chat, the first ones of the long chat.
FrameIds == {0, 1, 2}

\* summarizeMessage(mesId) from the message button or /tr-summarize, with
\* summaries and scenes already in the cache.
SummarizeMessageAmong(mesId, g) ==
    /\ Len(memoryCache) < Cardinality(FrameIds)
    /\ \E r \in {summarizeMessage(chat, memoryCache, settings, now, mesId, g)} :
          /\ chat' = r.chat
          /\ memoryCache' = r.cache
          /\ lastOp' = OpTrace("summarizeMessage", <<mesId>>, r.ret, r.err,
                               getMessageSummary(chat, mesId),
                               <<Attempt(<<mesId>>, r.calls, r.failed, r.err,
                                         FALSE)>>)
    /\ UNCHANGED <<lastSceneEnd, timelineData, tr_timeline, settings,
                   maxContext, sepTok, run, now>>

InitFrame ==
    /\ InitCommon
    /\ \E n \in {Cardinality(FrameIds), MinInterval + 1} : chat = MixedChat(n)
    /\ \E autoHide \in BOOLEAN, hideScenes \in BOOLEAN :
          settings = Settings(autoHide, 1, hideScenes, FALSE)
    /\ maxContext = FrameContext
    /\ sepTok = 0


NextFrame ==
    \/ \E mesId \in FrameIds, g \in {0, 1} : SummarizeMessageAmong(mesId, g)
    \/ \E startId \in FrameIds, endId \in FrameIds :
          SummarizeSceneCall(startId, endId, {1})
    \/ SummarizeAll({})
    \/ AutoFillGen(MinInterval, {})
    \/ ClearAllSummaries
    \/ LoadMemoryData

SpecFrame == InitFrame /\ [][NextFrame]_vars

----------------------------------------------------------------------------
(* SpecCombine: summarizeScene with chunk summaries of different sizes,    *)
(* under windows that take one unit, two units or the whole scene          *)

\* Token counts of the texts the generator returns for a chunk or for the
\* combining call; 0 is the empty string.
SumToks == {0, 1, MaxTok}

\* Token count of chunkSummaries.join('\n\n---\n\n') (summarizer.js 343):
\* the separator costs one token more than '\n\n'.
CombinedTok(sums, sep) == SumSeq(sums) + (sep + 1) * (Len(sums) - 1)

\* summarizer.js 229-298 with 303-349: summarizeScene(startId, endId) when
\* the generator returns gd to a direct call, gs[k] for chunk k and gc to
\* the combining call; the first call on a freshly loaded chat.
SummarizeSceneWith(startId, endId, gd, gs, gc) ==
    /\ lastOp = NoOp
    /\ \E r \in {summarizeScene(chat, memoryCache, settings, maxContext, now,
                                 startId, endId, sepTok, gd, gs, gc)} :
          /\ chat' = r.chat
          /\ memoryCache' = r.cache
          /\ lastOp' = OpTrace("summarizeScene", <<startId, endId>>, r.ret,
                               r.err,
                               [chunked |-> r.chunked, groups |-> r.groups,
                                gs |-> gs, gc |-> gc,
                                maxTokens |-> maxContext - CtxReserve],
                               <<Attempt(<<startId, endId>>, r.calls,
                                         r.failed, r.err, FALSE)>>)
    /\ UNCHANGED <<lastSceneEnd, timelineData, tr_timeline, settings,
                   maxContext, sepTok, run, now>>

InitCombine ==
    /\ InitCommon
    /\ chat = FreshChat(MaxChat + 1, [k \in 1..(MaxChat + 1) |-> 1])
    /\ settings = DefaultSettings
    /\ maxContext \in {CtxReserve + NameTok + 1, CtxReserve + 2 * (NameTok + 1),
                       WideContext}
    /\ sepTok \in SepToks

NextCombine ==
    \E startId \in 0..(Len(chat) - 1), endId \in 0..(Len(chat) - 1),
       gd \in SumToks, gs \in [1..Len(chat) -> SumToks], gc \in SumToks :
       SummarizeSceneWith(startId, endId, gd, gs, gc)

SpecCombine == InitCombine /\ [][NextCombine]_vars

----------------------------------------------------------------------------
(* SpecRender: index.js, the handlers of CHARACTER_MESSAGE_RENDERED,       *)
(* MESSAGE_SWIPED and MESSAGE_EDITED, each run from its first to its last  *)
(* statement, under every combination of the switches they read            *)

\* settings.js 13-40: the switches and numbers the handlers read.
RenderSettings(master, onSwipe, onContinue, onEdit, auto, user, delay, sceneMode, interval) ==
    [auto_hide_summarized |-> FALSE, keep_recent_count |-> 0,
     hide_summarized_scenes |-> FALSE, replace_with_summary |-> FALSE,
     enable_message_summary |-> master, auto_summarize_on_swipe |-> onSwipe,
     auto_summarize_on_continue |-> onContinue,
     auto_summarize_on_edit |-> onEdit, auto_summarize |-> auto,
     auto_summarize_user |-> user, summary_delay_messages |-> delay,
     enable_scene_mode |-> sceneMode, auto_scene_interval |-> interval]

\* index.js 20-21: lastSwipeId and lastMessageId, null written as -1, and
\* the events handled so far.
NoEvents == [op |-> "index", lastSwipeId |-> -1, lastMessageId |-> -1,
             events |-> 0]

\* One awaited summarizeMessage or summarizeScene call of a handler: the
\* branch that made it, its arguments, what it returned, whether it threw,
\* and lastSwipeId as it was when the call was made.
Call(kind, target, ret, threw, swipe) ==
    [kind |-> kind, target |-> target, ret |-> ret, threw |-> threw,
     swipe |-> swipe]

\* index.js 169-192: the auto-summarize loop of a render at index cur from
\* i on; gen[i + 1] is the text the generator yields for message i.
RECURSIVE AutoLoop(_, _, _, _, _, _, _, _, _)
AutoLoop(c, cache, st, t, cur, i, gen, trace, sw) ==
    IF ~(i < cur - (IF st.summary_delay_messages = 0
                    THEN 5 ELSE st.summary_delay_messages) /\ i < Len(c))
    THEN [chat |-> c, cache |-> cache, trace |-> trace]
    ELSE IF \/ Msg(c, i).tr_summary # 0
            \/ Msg(c, i).is_system
            \/ (Msg(c, i).is_user /\ ~st.auto_summarize_user)
    THEN AutoLoop(c, cache, st, t, cur, i + 1, gen, trace, sw)
    ELSE LET r == summarizeMessage(c, cache, st, t, i, gen[i + 1])
         IN AutoLoop(r.chat, r.cache, st, t, cur, i + 1, gen,
                     Append(trace, Call("auto", <<i>>, r.ret, r.err, sw)),
                     sw)

\* Mutant: a pending swipe is cleared by a render of any index.
onCharacterMessageRenderedClearsSwipe(c, cache, st, mc, t, sep, ix, mesId, gen, gScene) ==
    [chat |-> c, cache |-> cache, trace |-> <<>>,
     ix |-> [ix EXCEPT !.lastSwipeId = -1, !.lastMessageId = mesId]]

\* Mutant: a continue re-summarizes a message that has no summary.
onCharacterMessageRenderedAnyContinue(c, cache, st, mc, t, sep, ix, mesId, gen, gScene) ==
    IF ix.lastMessageId = mesId /\ st.enable_message_summary
       /\ st.auto_summarize_on_continue
    THEN LET r == summarizeMessage(c, cache, st, t, mesId, gen[mesId + 1])
         IN [chat |-> r.chat, cache |-> r.cache, ix |-> ix,
             trace |-> <<Call("continue", <<mesId>>, r.ret, r.err,
                                ix.lastSwipeId)>>]
    ELSE [chat |-> c, cache |-> cache, trace |-> <<>>,
          ix |-> [ix EXCEPT !.lastMessageId = mesId]]

\* Mutant: the interval is compared with the messages after the scene end
\* that come before the rendered one.
onCharacterMessageRenderedShortCount(c, cache, st, mc, t, sep, ix, mesId, gen, gScene) ==
    LET lastEnd == findLastSceneEnd(c, mesId) IN
    IF st.enable_scene_mode /\ st.auto_scene_interval > 0
       /\ mesId - lastEnd - 1 >= st.auto_scene_interval
    THEN LET r == summarizeScene(c, cache, st, mc, t, lastEnd + 1, mesId, sep,
                                 gScene, [k \in 1..Len(c) |-> 0], 0)
         IN [chat |-> r.chat, cache |-> r.cache,
             ix |-> [ix EXCEPT !.lastMessageId = mesId],
             trace |-> <<Call("scene", <<lastEnd + 1, mesId>>, r.ret, r.err,
                                ix.lastSwipeId)>>]
    ELSE [chat |-> c, cache |-> cache, trace |-> <<>>,
          ix |-> [ix EXCEPT !.lastMessageId = mesId]]

\* Mutant: the loop stops at the first message whose summary fails.
onCharacterMessageRenderedStopsOnFailure(c, cache, st, mc, t, sep, ix, mesId, gen, gScene) ==
    LET r == AutoLoop(c, cache, st, t, mesId, 0, gen, <<>>, ix.lastSwipeId)
        bad == {k \in 1..Len(r.trace) : r.trace[k].ret = 0}
    IN [chat |-> IF bad = {} THEN r.chat ELSE c,
        cache |-> IF bad = {} THEN r.cache ELSE cache,
        ix |-> [ix EXCEPT !.lastMessageId = mesId],
        trace |-> IF bad = {} \/ ~(st.enable_message_summary /\ st.auto_summarize)
                  THEN <<>>
                  ELSE SubSeq(r.trace, 1, CHOOSE k \in bad : \A j \in bad : k <= j)]

\* index.js 107-203: onCharacterMessageRendered(mesId) with module state
\* ix; the generator yields gen[i + 1] for message i and gScene for a
\* scene.  The result is the chat, the cache and the module state after
\* the handler and the calls it awaited, in order.
onCharacterMessageRendered(c, cache, st, mc, t, sep, ix, mesId, gen, gScene) ==
    IF ix.lastSwipeId = mesId /\ st.enable_message_summary
       /\ st.auto_summarize_on_swipe
    THEN LET r == summarizeMessage(c, cache, st, t, mesId, gen[mesId + 1])
         IN [chat |-> r.chat, cache |-> r.cache,
             ix |-> [ix EXCEPT !.lastSwipeId = -1],
             trace |-> <<Call("swipe", <<mesId>>, r.ret, r.err, -1)>>]
    ELSE
    LET ix1 == IF ix.lastSwipeId = mesId
               THEN [ix EXCEPT !.lastSwipeId = -1] ELSE ix
    IN
    IF ix1.lastMessageId = mesId /\ st.enable_message_summary
       /\ st.auto_summarize_on_continue /\ Msg(c, mesId).tr_summary # 0
    THEN LET r == summarizeMessage(c, cache, st, t, mesId, gen[mesId + 1])
         IN [chat |-> r.chat, cache |-> r.cache, ix |-> ix1,
             trace |-> <<Call("continue", <<mesId>>, r.ret, r.err,
                                ix1.lastSwipeId)>>]
    ELSE
    LET ix2 == [ix1 EXCEPT !.lastMessageId = mesId]
        lastEnd == findLastSceneEnd(c, mesId)
        scene == st.enable_scene_mode /\ st.auto_scene_interval > 0
                 /\ mesId - lastEnd >= st.auto_scene_interval
        r1 == IF scene
              THEN summarizeScene(c, cache, st, mc, t, lastEnd + 1, mesId, sep,
                                  gScene, [k \in 1..Len(c) |-> 0], 0)
              ELSE [chat |-> c, cache |-> cache, ret |-> 0, err |-> FALSE]
        t1 == IF scene
              THEN <<Call("scene", <<lastEnd + 1, mesId>>, r1.ret, r1.err,
                          ix2.lastSwipeId)>>
              ELSE <<>>
    IN IF st.enable_message_summary /\ st.auto_summarize
       THEN LET r2 == AutoLoop(r1.chat, r1.cache, st, t, mesId, 0, gen, t1,
                            ix2.lastSwipeId)
            IN [chat |-> r2.chat, cache |-> r2.cache, ix |-> ix2,
                trace |-> r2.trace]
       ELSE [chat |-> r1.chat, cache |-> r1.cache, ix |-> ix2, trace |-> t1]

\* Mutant: an edit re-summarizes whatever the switches say.
onMessageEditedAlways(c, cache, st, t, ix, mesId, g) ==
    IF ValidId(c, mesId) /\ Msg(c, mesId).tr_summary # 0
    THEN LET r == summarizeMessage(c, cache, st, t, mesId, g)
         IN [chat |-> r.chat, cache |-> r.cache, ix |-> ix,
             trace |-> <<Call("edit", <<mesId>>, r.ret, r.err,
                                ix.lastSwipeId)>>]
    ELSE [chat |-> c, cache |-> cache, ix |-> ix, trace |-> <<>>]

\* index.js 252-266: the MESSAGE_EDITED handler.
onMessageEdited(c, cache, st, t, ix, mesId, g) ==
    IF st.enable_message_summary /\ st.auto_summarize_on_edit
       /\ ValidId(c, mesId) /\ Msg(c, mesId).tr_summary # 0
    THEN LET r == summarizeMessage(c, cache, st, t, mesId, g)
         IN [chat |-> r.chat, cache |-> r.cache, ix |-> ix,
             trace |-> <<Call("edit", <<mesId>>, r.ret, r.err,
                                ix.lastSwipeId)>>]
    ELSE [chat |-> c, cache |-> cache, ix |-> ix, trace |-> <<>>]

\* The events one behavior of SpecRender handles.
RenderSteps == {1, 2}

HandlerStep(name, mesId, r) ==
    /\ chat' = r.chat
    /\ memoryCache' = r.cache
    /\ run' = [r.ix EXCEPT !.events = @ + 1]
    /\ lastOp' = OpTrace(name, <<mesId>>, 0, FALSE, <<>>, r.trace)
    /\ UNCHANGED <<lastSceneEnd, timelineData, tr_timeline, settings,
                   maxContext, sepTok, now>>

\* index.js 269-271: the MESSAGE_SWIPED handler.
MessageSwiped(mesId) ==
    /\ run.events < Cardinality(RenderSteps)
    /\ HandlerStep("MESSAGE_SWIPED", mesId,
                   [chat |-> chat, cache |-> memoryCache, trace |-> <<>>,
                    ix |-> [run EXCEPT !.lastSwipeId = mesId]])

\* index.js 107-203: CHARACTER_MESSAGE_RENDERED for message mesId, with a
\* generator that fails on the messages in `bad`.
RenderCharacterMessage(mesId, bad) ==
    /\ run.events < Cardinality(RenderSteps)
    /\ \E r \in {onCharacterMessageRendered(chat, memoryCache, settings,
                     maxContext, now, sepTok, run, mesId,
                     [k \in 1..Len(chat) |-> IF (k - 1) \in bad THEN 0 ELSE 2],
                     2)} :
          HandlerStep("CHARACTER_MESSAGE_RENDERED", mesId, r)

\* index.js 252-266: MESSAGE_EDITED for message mesId.
EditMessage(mesId, g) ==
    /\ run.events < Cardinality(RenderSteps)
    /\ \E r \in {onMessageEdited(chat, memoryCache, settings, now, run,
                                 mesId, g)} :
          HandlerStep("MESSAGE_EDITED", mesId, r)

\* The chats the events arrive on: MaxChat + 2 messages, the user and the
\* character alternating; either message 0 ends a scene and messages 1
\* and 2 are hidden, or there is no scene and the last message carries a
\* summary.
RenderChats ==
    LET n == MaxChat + 2
        base == [k \in 1..n |-> IF k % 2 = 1 THEN UserMessage(1, FALSE)
                                ELSE NewMessage(1, FALSE)]
    IN {[k \in 1..n |->
            IF k = 1 THEN [base[k] EXCEPT !.tr_scene_end = TRUE,
                                          !.tr_scene_summary = 1,
                                          !.tr_scene_start = 0,
                                          !.tr_summarized_at = 1]
            ELSE IF k <= 3 THEN [base[k] EXCEPT !.is_system = TRUE]
            ELSE base[k]],
        [k \in 1..n |->
            IF k = n THEN [base[k] EXCEPT !.tr_summary = 1,
                                          !.tr_summarized_at = 1]
            ELSE base[k]]}

InitRender ==
    /\ timelineData = <<>>
    /\ tr_timeline = [present |-> FALSE, data |-> <<>>]
    /\ now = 1
    /\ lastOp = NoOp
    /\ chat \in RenderChats
    /\ memoryCache = LoadedCache(chat, 0, now)
    /\ lastSceneEnd = Watermark(chat)
    /\ \E master \in BOOLEAN, onSwipe \in BOOLEAN, onContinue \in BOOLEAN,
          onEdit \in BOOLEAN, auto \in BOOLEAN, user \in BOOLEAN,
          delay \in {0, 1}, sceneMode \in BOOLEAN, interval \in {0, 2} :
          settings = RenderSettings(master, onSwipe, onContinue, onEdit, auto,
                                    user, delay, sceneMode, interval)
    /\ maxContext = WideContext
    /\ sepTok = 0
    /\ run = NoEvents

NextRender ==
    \/ \E mesId \in 0..(Len(chat) - 1) : MessageSwiped(mesId)
    \/ \E mesId \in 0..(Len(chat) - 1), bad \in {{}, {0}} :
          RenderCharacterMessage(mesId, bad)
    \/ \E mesId \in 0..(Len(chat) - 1), g \in {0, 2} : EditMessage(mesId, g)

SpecRender == InitRender /\ [][NextRender]_vars

----------------------------------------------------------------------------
(* SpecFillRace: autoFillChapters step by step while the scene-end button  *)
(* is clicked between its steps                                            *)

InitFillRace ==
    /\ InitCommon
    /\ chat = FreshChat(2 * MinInterval, [k \in 1..(2 * MinInterval) |-> 1])
    /\ settings = Settings(FALSE, 0, FALSE, FALSE)
    /\ maxContext = BlockContext
    /\ sepTok = 0

NextFillRace ==
    \/ FillStart(MinInterval)
    \/ FillIterate
    \/ \E g \in {0, 1} : FillReturn(g)
    \/ \E mid \in 0..(Len(chat) - 1) : SceneBtnClick(mid, {1})

SpecFillRace == InitFillRace /\ [][NextFillRace]_vars

----------------------------------------------------------------------------
(* SpecSwitch: the host changes the active chat while a summarizeMessage   *)
(* or summarizeScene call is suspended on the generator                    *)

\* The chats the host holds: one of MaxChat + 1 fresh messages and one of
\* two messages whose second carries a summary.
HostChats ==
    [id \in {1, 2} |->
        IF id = 1 THEN FreshChat(MaxChat + 1, [k \in 1..(MaxChat + 1) |-> 1])
        ELSE <<UserMessage(1, FALSE),
               [NewMessage(1, FALSE) EXCEPT !.tr_summary = 1,
                                            !.tr_summarized_at = 1]>>]

\* No summarize call is suspended.
NoCall == [kind |-> "none", args |-> <<>>, chatId |-> 0, stale |-> FALSE]

\* index.js 20-21 and the host's chats: the open chat is chatId (0 when no
\* chat is open); chats and metas hold every chat as last saved; swipeChat
\* and renderChat are the chats in which lastSwipeId and lastMessageId were
\* written; task is the suspended summarize call.
NoHost ==
    [op |-> "host", chatId |-> 1, chats |-> HostChats,
     metas |-> [id \in {1, 2} |-> [present |-> FALSE, data |-> <<>>]],
     lastSwipeId |-> -1, lastMessageId |-> -1, events |-> 0,
     swipeChat |-> 0, renderChat |-> 0, task |-> NoCall]

\* index.js 208-221: the host opens chat `to` (0: closes the chat) and
\* emits CHAT_CHANGED; onChatChanged returns at once without a chat id and
\* otherwise reloads the memory cache and the timeline from the new chat.
\* The messages and the metadata of the new chat are objects read anew, so
\* what a suspended call captured before is stale from here on.
ChatChanged(to) ==
    /\ to # run.chatId
    /\ LET saved == IF run.chatId = 0 THEN run.chats
                    ELSE [run.chats EXCEPT ![run.chatId] = chat]
           savedMeta == IF run.chatId = 0 THEN run.metas
                        ELSE [run.metas EXCEPT ![run.chatId] = tr_timeline]
           c == IF to = 0 THEN <<>> ELSE saved[to]
           meta == IF to = 0 THEN [present |-> FALSE, data |-> <<>>]
                   ELSE savedMeta[to]
       IN /\ chat' = c
          /\ tr_timeline' = meta
          /\ memoryCache' = IF to = 0 THEN memoryCache
                            ELSE LoadedCache(c, 0, now)
          /\ lastSceneEnd' = IF to = 0 THEN lastSceneEnd ELSE Watermark(c)
          /\ timelineData' = IF to = 0 THEN timelineData
                             ELSE loadTimelineData(meta)
          /\ run' = [run EXCEPT !.chatId = to, !.chats = saved,
                                !.metas = savedMeta,
                                !.task = IF @.kind = "none" THEN @
                                         ELSE [@ EXCEPT !.stale = TRUE]]
          /\ lastOp' = Op("CHAT_CHANGED", <<to>>, 0, FALSE, <<>>)
    /\ UNCHANGED <<settings, maxContext, sepTok, now>>

\* summarizer.js 177-192: summarizeMessage(mesId) up to `await
\* generateText`, with `message` captured.
SummarizeMessageBegin(mesId) ==
    /\ run.task.kind = "none"
    /\ ValidId(chat, mesId)
    /\ Len(memoryCache) <= MaxCache
    /\ run' = [run EXCEPT !.task = [kind |-> "message", args |-> <<mesId>>,
                                    chatId |-> run.chatId, stale |-> FALSE]]
    /\ UNCHANGED <<chat, memoryCache, lastSceneEnd, timelineData, tr_timeline,
                   settings, maxContext, sepTok, now, lastOp>>

\* summarizer.js 229-265: summarizeScene(startId, endId) up to `await
\* generateText`, with `chat` captured.
SummarizeSceneBegin(startId, endId) ==
    /\ run.task.kind = "none"
    /\ ~SceneThrows(startId, endId)
    /\ Len(memoryCache) <= MaxCache
    /\ run' = [run EXCEPT !.task = [kind |-> "scene",
                                    args |-> <<startId, endId>>,
                                    chatId |-> run.chatId, stale |-> FALSE]]
    /\ UNCHANGED <<chat, memoryCache, lastSceneEnd, timelineData, tr_timeline,
                   settings, maxContext, sepTok, now, lastOp>>

\* summarizer.js 194-220 and 268-297 after a chat change: the text g is
\* written through what the call captured and stored with storeMemory.
\* `message` is an object of the chat that was left.  The array `chat` is
\* the open chat when the host refills its array in place (inPlace) and the
\* chat that was left when the host makes a new array; in the first case
\* chat[endId] is missing when the open chat is shorter, and the write
\* throws before storeMemory.
StaleReturn(c, cache, st, t, task, g, inPlace) ==
    IF g = 0 THEN [chat |-> c, cache |-> cache]
    ELSE IF task.kind = "message"
    THEN [chat |-> c,
          cache |-> storeMemory(cache, g, "message", task.args[1], t)]
    ELSE IF ~inPlace
    THEN [chat |-> c,
          cache |-> storeMemory(cache, g, "scene", task.args[2], t)]
    ELSE IF task.args[2] >= Len(c) THEN [chat |-> c, cache |-> cache]
    ELSE [chat |-> MarkScene(c, st, t, task.args[1], task.args[2], g),
          cache |-> storeMemory(cache, g, "scene", task.args[2], t)]

\* summarizer.js 192-220 and 265-297: generateText returns g to the
\* suspended call, which runs to its end.
GenerateTextReturns(g, inPlace) ==
    /\ run.task.kind # "none"
    /\ \E r \in {IF run.task.stale
                  THEN StaleReturn(chat, memoryCache, settings, now, run.task,
                                   g, inPlace)
                  ELSE IF run.task.kind = "message"
                  THEN summarizeMessage(chat, memoryCache, settings, now,
                                        run.task.args[1], g)
                  ELSE summarizeScene(chat, memoryCache, settings, maxContext,
                                      now, run.task.args[1], run.task.args[2],
                                      sepTok, g, [k \in 1..Len(chat) |-> g],
                                      g)} :
          /\ chat' = r.chat
          /\ memoryCache' = r.cache
    /\ run' = [run EXCEPT !.task = NoCall]
    /\ lastOp' = Op("generateText", run.task.args, g, FALSE,
                    [kind |-> run.task.kind, from |-> run.task.chatId,
                     stale |-> run.task.stale, open |-> run.chatId])
    /\ UNCHANGED <<lastSceneEnd, timelineData, tr_timeline, settings,
                   maxContext, sepTok, now>>

InitSwitch ==
    /\ memoryCache = <<>>
    /\ lastSceneEnd = -1
    /\ timelineData = <<>>
    /\ tr_timeline = [present |-> FALSE, data |-> <<>>]
    /\ now = 1
    /\ lastOp = NoOp
    /\ run = NoHost
    /\ chat = HostChats[1]
    /\ settings = Settings(FALSE, 0, FALSE, FALSE)
    /\ maxContext = WideContext
    /\ sepTok = 0

NextSwitch ==
    \/ \E to \in 0..2 : ChatChanged(to)
    \/ \E mesId \in 0..(Len(chat) - 1) : SummarizeMessageBegin(mesId)
    \/ \E startId \in 0..(Len(chat) - 1), endId \in 0..(Len(chat) - 1) :
          SummarizeSceneBegin(startId, endId)
    \/ \E g \in {0, 2}, inPlace \in BOOLEAN : GenerateTextReturns(g, inPlace)

SpecSwitch == InitSwitch /\ [][NextSwitch]_vars

----------------------------------------------------------------------------
(* SpecStale: swipes and renders before and after the host changes the    *)
(* active chat                                                             *)

\* index.js 269-271: MESSAGE_SWIPED for message mesId of the open chat.
SwipedIn(mesId) ==
    /\ run.events < Cardinality(RenderSteps)
    /\ run' = [run EXCEPT !.lastSwipeId = mesId, !.swipeChat = run.chatId,
                          !.events = @ + 1]
    /\ lastOp' = OpTrace("MESSAGE_SWIPED", <<mesId>>, 0, FALSE, <<>>, <<>>)
    /\ UNCHANGED <<chat, memoryCache, lastSceneEnd, timelineData, tr_timeline,
                   settings, maxContext, sepTok, now>>

\* index.js 107-203: CHARACTER_MESSAGE_RENDERED for message mesId of the
\* open chat.
RenderedIn(mesId) ==
    /\ run.events < Cardinality(RenderSteps)
    /\ \E r \in {onCharacterMessageRendered(chat, memoryCache, settings,
                     maxContext, now, sepTok, run, mesId,
                     [k \in 1..Len(chat) |-> 2], 2)} :
          /\ chat' = r.chat
          /\ memoryCache' = r.cache
          /\ run' = [r.ix EXCEPT
                        !.events = @ + 1,
                        !.swipeChat = IF r.ix.lastSwipeId = -1 THEN 0 ELSE @,
                        !.renderChat =
                            IF \A k \in 1..Len(r.trace) :
                                  r.trace[k].kind \notin {"swipe", "continue"}
                            THEN run.chatId ELSE @]
          /\ lastOp' = OpTrace("CHARACTER_MESSAGE_RENDERED", <<mesId>>, 0,
                               FALSE, <<>>, r.trace)
    /\ UNCHANGED <<lastSceneEnd, timelineData, tr_timeline, settings,
                   maxContext, sepTok, now>>

InitStale ==
    /\ memoryCache = <<>>
    /\ lastSceneEnd = -1
    /\ timelineData = <<>>
    /\ tr_timeline = [present |-> FALSE, data |-> <<>>]
    /\ now = 1
    /\ lastOp = NoOp
    /\ run = NoHost
    /\ chat = HostChats[1]
    /\ \E onSwipe \in BOOLEAN, onContinue \in BOOLEAN :
          settings = RenderSettings(TRUE, onSwipe, onContinue, FALSE, FALSE,
                                    FALSE, 1, FALSE, 0)
    /\ maxContext = WideContext
    /\ sepTok = 0

NextStale ==
    \/ \E to \in 0..2 : ChatChanged(to)
    \/ \E mesId \in 0..(Len(chat) - 1) : SwipedIn(mesId)
    \/ \E mesId \in 0..(Len(chat) - 1) : RenderedIn(mesId)

SpecStale == InitStale /\ [][NextStale]_vars

----------------------------------------------------------------------------
(* SpecButtons: generateText calls that overlap, each split at its awaits, *)
(* and the host's send buttons                                             *)

\* No generateText call is running; the send buttons are active.
NoRequests ==
    [op |-> "generateText", calls |-> <<>>, issued |-> 0,
     sendButtons |-> TRUE]

\* The calls of `calls` without call n.
Without(calls, n) ==
    [k \in 1..(Len(calls) - 1) |-> IF k < n THEN calls[k] ELSE calls[k + 1]]

\* summarizer.js 57-78: generateText up to its first await: '' without a
\* chat or without a profile; otherwise waitForRateLimit, which suspends
\* on its timer when the delay is positive (delayed) and otherwise returns
\* at once, so that the buttons are deactivated and the request is sent.
GenerateTextEnter(delayed) ==
    /\ Len(run.calls) < MaxCalls
    /\ run.issued < 2 * MaxCalls
    /\ IF Len(chat) = 0 \/ settings.summarization_profile = 0
       THEN /\ run' = [run EXCEPT !.issued = @ + 1]
            /\ lastOp' = Op("generateText", <<run.issued + 1>>, 0, FALSE,
                            "precondition")
       ELSE /\ run' = [run EXCEPT
                          !.issued = @ + 1,
                          !.calls = Append(@, [id |-> run.issued + 1,
                                               pc |-> IF delayed THEN "wait"
                                                      ELSE "request"]),
                          !.sendButtons = IF delayed THEN @ ELSE FALSE]
            /\ lastOp' = Op("generateText", <<run.issued + 1>>, 0, FALSE,
                            IF delayed THEN "wait" ELSE "request")
    /\ UNCHANGED <<chat, memoryCache, lastSceneEnd, timelineData, tr_timeline,
                   settings, maxContext, sepTok, now>>

\* summarizer.js 24-28 and 77-93: the timer of waitForRateLimit fires for
\* call n, which deactivates the send buttons and sends its request.
RateTimerFires(n) ==
    /\ n \in 1..Len(run.calls)
    /\ run.calls[n].pc = "wait"
    /\ run' = [run EXCEPT !.calls[n].pc = "request", !.sendButtons = FALSE]
    /\ lastOp' = Op("sendRequest", <<run.calls[n].id>>, 0, FALSE, "request")
    /\ UNCHANGED <<chat, memoryCache, lastSceneEnd, timelineData, tr_timeline,
                   settings, maxContext, sepTok, now>>

\* summarizer.js 93-122: the request of call n settles with text g, or is
\* rejected (threw) and caught; `finally` activates the send buttons and
\* the call returns.
RequestSettles(n, g, threw) ==
    /\ n \in 1..Len(run.calls)
    /\ run.calls[n].pc = "request"
    /\ run' = [run EXCEPT !.calls = Without(@, n), !.sendButtons = TRUE]
    /\ lastOp' = Op("generateText", <<run.calls[n].id>>,
                    IF threw THEN 0 ELSE g, FALSE,
                    IF threw THEN "caught" ELSE "returned")
    /\ UNCHANGED <<chat, memoryCache, lastSceneEnd, timelineData, tr_timeline,
                   settings, maxContext, sepTok, now>>

InitButtons ==
    /\ memoryCache = <<>>
    /\ lastSceneEnd = -1
    /\ timelineData = <<>>
    /\ tr_timeline = [present |-> FALSE, data |-> <<>>]
    /\ now = 1
    /\ lastOp = NoOp
    /\ run = NoRequests
    /\ chat \in {<<>>, FreshChat(1, <<1>>)}
    /\ \E profile \in {0, 1} : settings = RateSettings(DefaultRate, profile)
    /\ maxContext = WideContext
    /\ sepTok = 0

NextButtons ==
    \/ \E delayed \in BOOLEAN : GenerateTextEnter(delayed)
    \/ \E n \in 1..MaxCalls : RateTimerFires(n)
    \/ \E n \in 1..MaxCalls, g \in {0, 1}, threw \in BOOLEAN :
          RequestSettles(n, g, threw)

SpecButtons == InitButtons /\ [][NextButtons]_vars

----------------------------------------------------------------------------
(* Claims                                                                  *)

\* C1 as stated: after summarizeMessage(i) completes on a valid index i,
\* isMessageSummarized(i) is true and getMessageSummary(i) is the text that
\* summarizeMessage returned.
C1_AfterEverySummarize ==
    (lastOp.op = "summarizeMessage" /\ ~lastOp.err) =>
        /\ isMessageSummarized(chat, lastOp.args[1])
        /\ getMessageSummary(chat, lastOp.args[1]) = lastOp.ret

\* C1 amended: after summarizeMessage(i) completes on a valid index i with a
\* non-empty summary, isMessageSummarized(i) is true and getMessageSummary(i)
\* is exactly the returned text.
C1_AfterProducedSummary ==
    (lastOp.op = "summarizeMessage" /\ ~lastOp.err /\ lastOp.ret # 0) =>
        /\ isMessageSummarized(chat, lastOp.args[1])
        /\ getMessageSummary(chat, lastOp.args[1]) = lastOp.ret

\* A message that already had a summary was summarized again and the
\* generator produced a different text.
C1_Witness ==
    /\ lastOp.op = "summarizeMessage" /\ ~lastOp.err /\ lastOp.ret # 0
    /\ lastOp.info # 0 /\ lastOp.info # lastOp.ret

\* C3 as stated: every scene end e starts right after the nearest lower
\* scene end (at 0 if there is none), so scene ranges are contiguous and
\* disjoint.
C3_ScenesContiguous ==
    \A e \in 0..(Len(chat) - 1) :
        isSceneEnd(chat, e) =>
            Msg(chat, e).tr_scene_start = findLastSceneEnd(chat, e) + 1

\* C4 as stated: a successful summarizeScene(s, e) leaves the chapter
\* {summary, s, e} in the chapter list, and whenever a scene exists the last
\* chapter ends at the watermark.
C4_SceneCreatesChapter ==
    /\ (lastOp.op \in SceneOps /\ lastOp.ret # 0) =>
          \E k \in 1..Len(timelineData) :
              timelineData[k] = Chapter(lastOp.ret, lastOp.args[1], lastOp.args[2])
    /\ Watermark(chat) # -1 =>
          /\ Len(timelineData) > 0
          /\ timelineData[Len(timelineData)].endMsgId = Watermark(chat)

\* C5: a rebuild of the cache that directly follows clearAllSummaries leaves
\* no entry of type message or scene in getMemories().
C5_ClearThenRebuildEmpty ==
    (lastOp.op = "loadMemoryData" /\ lastOp.info = "clearAllSummaries") =>
        \A k \in 1..Len(getMemories) :
            getMemories[k].type \notin {"message", "scene"}

\* The rebuild followed a clear of a chat that had a scene (its hidden
\* messages remain).
C5_Witness ==
    /\ lastOp.op = "loadMemoryData" /\ lastOp.info = "clearAllSummaries"
    /\ \E i \in 0..(Len(chat) - 1) : Msg(chat, i).is_system

\* C2 as stated: in every reachable state the chapter list is increasing and
\* non-overlapping: chapters[k].endMsgId < chapters[k+1].startMsgId.
C2_ChaptersIncreasing ==
    \A k \in 1..(Len(timelineData) - 1) :
        timelineData[k].endMsgId < timelineData[k + 1].startMsgId

\* C10: every removeChapter(k) step with 1 <= k <= count removes exactly the
\* k-th chapter: those below k are unchanged, those above move down one
\* place with summary and range unchanged, and the injected timeline numbers
\* them 1..count-1 with those ranges; with k out of range the list is
\* unchanged.
C10_RemoveExactlyKth ==
    [][lastOp'.op = "removeChapter" =>
        LET k   == lastOp'.args[1]
            old == timelineData
            new == timelineData'
            inj == getTimelineForInjection(new)
        IN IF k >= 1 /\ k <= Len(old)
           THEN /\ Len(new) = Len(old) - 1
                /\ \A j \in 1..Len(new) :
                      LET was == IF j < k THEN old[j] ELSE old[j + 1] IN
                      /\ new[j] = was
                      /\ inj[j].number = j
                      /\ inj[j].startMsgId = was.startMsgId
                      /\ inj[j].endMsgId = was.endMsgId
                      /\ inj[j].summary = was.summary
                /\ tr_timeline' = Saved(new)
           ELSE new = old /\ tr_timeline' = tr_timeline]_vars

\* Chapter 2 of 3 was deleted, leaving two distinct chapters.
C10_Witness ==
    /\ lastOp.op = "removeChapter" /\ lastOp.args[1] = 2
    /\ Len(timelineData) = 2
    /\ timelineData[1] # timelineData[2]

\* C6: the chunk packing of a chunked scene partitions the ordered visible
\* units into consecutive non-empty groups in input order, and no group
\* counts more tokens than the budget maxContext - 500 unless it is a single
\* unit that alone exceeds the budget.
C6_ChunksPartitionWithinBudget ==
    (lastOp.op \in SceneOps /\ ~lastOp.err /\ lastOp.info.chunked) =>
        LET groups == lastOp.info.groups
            B      == maxContext - CtxReserve
        IN /\ Flatten(groups) = lastOp.info.units
           /\ \A k \in 1..Len(groups) :
                 /\ Len(groups[k]) > 0
                 /\ \/ UnitTokSum(chat, groups[k]) <= B
                    \/ Len(groups[k]) = 1 /\ UnitTok(chat, groups[k][1]) > B

\* A chunked scene was packed into a group of two units and a group of one
\* unit that alone exceeds the budget.
C6_Witness ==
    /\ lastOp.op \in SceneOps /\ ~lastOp.err /\ lastOp.info.chunked
    /\ \E k \in 1..Len(lastOp.info.groups) : Len(lastOp.info.groups[k]) = 2
    /\ \E k \in 1..Len(lastOp.info.groups) :
          /\ Len(lastOp.info.groups[k]) = 1
          /\ UnitTok(chat, lastOp.info.groups[k][1]) > maxContext - CtxReserve

\* C9: every summarizeScene(s, e) step that returns a non-empty summary
\* writes on message e exactly scene_end = true, scene_summary = the returned
\* text, scene_start = s and summarized_at, and no other message's scene
\* fields change; the chunked path is taken iff the token count of the joined
\* visible messages exceeds maxContext - 500, and then at least two groups
\* are formed when two or more visible messages sum above the budget.
C9_SceneEffects ==
    [][(lastOp'.op \in SceneOps /\ ~lastOp'.err) =>
        LET s    == lastOp'.args[1]
            e    == lastOp'.args[2]
            info == lastOp'.info
            B    == maxContext - CtxReserve
        IN /\ info.tokens = JoinedTok(chat, info.units, sepTok)
           /\ info.chunked <=> info.tokens > B
           /\ (info.chunked /\ Len(info.units) >= 2
                  /\ UnitTokSum(chat, info.units) > B) => Len(info.groups) >= 2
           /\ lastOp'.ret # 0 =>
                 /\ Msg(chat', e) = [Msg(chat, e) EXCEPT
                                        !.tr_scene_end = TRUE,
                                        !.tr_scene_summary = lastOp'.ret,
                                        !.tr_scene_start = s,
                                        !.tr_summarized_at = now]
                 /\ \A i \in 0..(Len(chat) - 1) : i # e =>
                       /\ isSceneEnd(chat', i) = isSceneEnd(chat, i)
                       /\ Msg(chat', i).tr_scene_summary = Msg(chat, i).tr_scene_summary
                       /\ Msg(chat', i).tr_scene_start = Msg(chat, i).tr_scene_start]_vars

\* A scene that ends after an earlier scene end was summarized in two or
\* more chunks and its summary was written.
C9_Witness ==
    /\ lastOp.op \in SceneOps /\ ~lastOp.err /\ lastOp.ret # 0
    /\ lastOp.info.chunked /\ Len(lastOp.info.groups) >= 2
    /\ Msg(chat, lastOp.args[2]).tr_scene_start = lastOp.args[1]
    /\ \E i \in 0..(Len(chat) - 1) : i < lastOp.args[1] /\ isSceneEnd(chat, i)

\* C8: every autoFillChapters(I) step whose generator always succeeds, on a
\* chat of n messages with watermark w whose messages after w are visible,
\* returns floor((n - w - 1) / I), marks exactly the messages w + (k+1) * I
\* (k = 0 .. that count - 1) as scene ends with scene_start w + 1 + k * I,
\* leaves the scene ends up to w as they were and the short trailing
\* remainder without a scene.
C8_AutoFillBlocks ==
    [][(/\ lastOp'.op = "autoFillChapters" /\ ~lastOp'.err /\ lastOp'.info # 0
        /\ \A i \in (Watermark(chat) + 1)..(Len(chat) - 1) :
              ~Msg(chat, i).is_system) =>
        LET n   == Len(chat)
            w   == Watermark(chat)
            I   == lastOp'.args[1]
            cnt == (n - w - 1) \div I
        IN /\ lastOp'.ret = cnt
           /\ Len(chat') = n
           /\ \A i \in 0..w : isSceneEnd(chat', i) = isSceneEnd(chat, i)
           /\ \A i \in (w + 1)..(n - 1) :
                 IF \E k \in 0..(cnt - 1) : i = w + (k + 1) * I
                 THEN /\ isSceneEnd(chat', i)
                      /\ Msg(chat', i).tr_scene_start = i - I + 1
                 ELSE ~isSceneEnd(chat', i)]_vars

\* A fill after a scene 0..w created two scenes and left a remainder.
C8_Witness ==
    /\ lastOp.op = "autoFillChapters" /\ ~lastOp.err /\ lastOp.info # 0
    /\ lastOp.ret = 2
    /\ Watermark(chat) < Len(chat) - 1
    /\ \E w \in 0..(Len(chat) - 1) :
          /\ isSceneEnd(chat, w) /\ Msg(chat, w).tr_scene_start = 0
          /\ Watermark(chat) = w + 2 * lastOp.args[1]
          /\ Msg(chat, Watermark(chat)).tr_scene_start =
                 w + 1 + lastOp.args[1]

\* C7 as stated: getTotalSavings returns current = original - saved,
\* savedPercent <= 100, savedPercent = round(100 * saved / original) when
\* original > 0 (the nearest integer, a tie rounded up), and savedPercent = 0
\* when original = 0.
C7_SavingsExact ==
    lastOp.op = "getTotalSavings" =>
        LET r == lastOp.ret IN
        /\ r.current = r.original - r.saved
        /\ r.savedPercent <= 100
        /\ r.original > 0 =>
              r.savedPercent = (200 * r.saved + r.original) \div (2 * r.original)
        /\ r.original = 0 => r.savedPercent = 0

\* C11 as stated: after a chapter was deleted, the message at the deleted
\* chapter's endMessageIndex carries no scene metadata (scene_end,
\* scene_summary, scene_start) and the watermark recomputed from the message
\* metadata is not that message.
C11_DeleteClearsSceneEnd ==
    (lastOp.op = "deleteChapter" /\ lastOp.ret) =>
        LET e == lastOp.info.endMsgId IN
        /\ ~isSceneEnd(chat, e)
        /\ getSceneSummary(chat, e) = 0
        /\ Msg(chat, e).tr_scene_start = -1
        /\ Watermark(chat) # e

C13_FailureProducesNothing ==
    [][(/\ lastOp'.op \in SceneOps \cup {"summarizeMessage"}
        /\ \E k \in 1..Len(lastOp'.trace) : lastOp'.trace[k].failed) =>
        /\ lastOp'.ret = 0
        /\ chat' = chat
        /\ memoryCache' = memoryCache]_vars

\* C14 as stated: no user-invoked single-target operation (summarize
\* button, /tr-summarize, scene-end button, /tr-scene-end, the arc popup's
\* create-chapter button) lets an exception escape its handler: an invalid
\* index, an invalid or empty range or a generator failure ends in a
\* returned or notified message.
C14_NoExceptionEscapes ==
    lastOp.op \in SceneOps \cup {"summarizeBtn", "summarizeMessage"} =>
        ~Escaped(lastOp)

\* C15: every summarizeMessage(i) step with i outside [0, length - 1], and
\* every summarizeScene(s, e) step with s > e, s < 0 or e >= length or with
\* every message of [s, e] hidden, fails with an error, issues no generator
\* call and leaves all message metadata, hidden flags and the memory cache
\* unchanged.
C15_InvalidTargetFailsClean ==
    [][(\/ /\ lastOp'.op = "summarizeMessage"
           /\ (lastOp'.args[1] < 0 \/ lastOp'.args[1] >= Len(chat))
        \/ /\ lastOp'.op \in SceneCalls
           /\ LET s == lastOp'.args[1]
                  e == lastOp'.args[2]
              IN \/ s > e \/ s < 0 \/ e >= Len(chat)
                 \/ \A i \in s..e : Msg(chat, i).is_system) =>
        /\ lastOp'.err
        /\ \A k \in 1..Len(lastOp'.trace) : lastOp'.trace[k].calls = 0
        /\ chat' = chat
        /\ memoryCache' = memoryCache]_vars

\* summarizeScene failed on a range inside the chat whose messages are all
\* hidden, in a chat that has a scene end and a cache entry to preserve.
C15_Witness ==
    /\ lastOp.op \in SceneCalls /\ lastOp.err
    /\ 0 <= lastOp.args[1] /\ lastOp.args[1] < lastOp.args[2]
    /\ lastOp.args[2] < Len(chat)
    /\ \A i \in lastOp.args[1]..lastOp.args[2] : Msg(chat, i).is_system
    /\ Watermark(chat) # -1 /\ Len(memoryCache) > 0

\* C16: every autoFillChapters(interval) step with interval < 5, or with no
\* interval (0), fails with an error before the chat is scanned: no block
\* is visited, no generator call is issued, no scene is created and no
\* message metadata or cache entry changes.
C16_ShortIntervalRejected ==
    [][(lastOp'.op = "autoFillChapters" /\ lastOp'.args[1] < MinInterval) =>
        /\ lastOp'.err
        /\ lastOp'.trace = <<>>
        /\ lastOp'.info.stop = -1
        /\ lastOp'.ret = 0
        /\ chat' = chat
        /\ memoryCache' = memoryCache]_vars

\* autoFillChapters was rejected for an interval one below the minimum on a
\* chat that has a full block of visible messages after its last scene end.
C16_Witness ==
    /\ lastOp.op = "autoFillChapters" /\ lastOp.err
    /\ lastOp.args[1] = MinInterval - 1
    /\ Len(chat) - (Watermark(chat) + 1) >= MinInterval
    /\ \A i \in (Watermark(chat) + 1)..(Len(chat) - 1) : ~Msg(chat, i).is_system

C18_CountIsActuallySummarized ==
    [][/\ lastOp'.op = "summarizeAllMessages" =>
            lastOp'.ret = Cardinality({i \in 0..(Len(chat) - 1) :
                                          /\ Msg(chat, i).tr_summary = 0
                                          /\ Msg(chat', i).tr_summary # 0})
       /\ (lastOp'.op = "autoFillChapters" /\ ~lastOp'.err) =>
            lastOp'.ret = Cardinality({i \in 0..(Len(chat) - 1) :
                                          /\ ~isSceneEnd(chat, i)
                                          /\ isSceneEnd(chat', i)})]_vars

\* C19: a summarizeAllMessages run takes as targets exactly the messages
\* that are visible and lack a summary when it starts; a batch run awaits
\* at most one generator call at any time; it attempts its targets in
\* strictly ascending index order, each once; and it attempts every later
\* target whatever happened to the earlier ones: when summarizeAllMessages
\* is done every target has been attempted, and when autoFillChapters is
\* done no full block is left behind its block start.
C19_BatchSequentialAscending ==
    [][/\ (Idle /\ run' # run /\ run'.op = "summarizeAllMessages") =>
             {run'.targets[k] : k \in 1..Len(run'.targets)} =
                 {i \in 0..(Len(chat) - 1) :
                     ~Msg(chat, i).is_system /\ Msg(chat, i).tr_summary = 0}
       /\ ~Idle => run'.targets = run.targets
       /\ Cardinality(run'.inflight) <= 1
       /\ run'.inflight \subseteq {run'.attempted[k] :
                                      k \in 1..Len(run'.attempted)}
       /\ \A j, k \in 1..Len(run'.attempted) :
             j < k => run'.attempted[j][1] < run'.attempted[k][1]
       /\ run'.op = "summarizeAllMessages" =>
             /\ Len(run'.attempted) <= Len(run'.targets)
             /\ \A k \in 1..Len(run'.attempted) :
                   run'.attempted[k] = <<run'.targets[k]>>
             /\ run'.pc = "done" => Len(run'.attempted) = Len(run'.targets)
       /\ (run'.op = "autoFillChapters" /\ run'.pc = "done" /\ ~run'.err) =>
             run'.start + run'.interval - 1 >= Len(chat')]_vars

\* A summarizeAllMessages run is done in which the generator failed on one
\* target and a later target was attempted and summarized.
C19_Witness ==
    /\ run.op = "summarizeAllMessages" /\ run.pc = "done"
    /\ \E j, k \in 1..Len(run.attempted) :
          /\ j < k
          /\ run.attempted[j] \in run.failed
          /\ run.attempted[k] \notin run.failed
          /\ Msg(chat, run.attempted[k][1]).tr_summary # 0

\* C20 as stated: after every run of the auto-hide batch with
\* keep_recent_count = K on a chat in which c messages bear a summary,
\* exactly the oldest max(0, c - K) of the summary-bearing messages are
\* hidden and the others are visible, and running the batch again on the
\* resulting chat hides nothing further.
C20_AutoHideOldest ==
    [][(/\ lastOp'.op = "summarizeMessage" /\ ~lastOp'.err /\ lastOp'.ret # 0
        /\ settings.auto_hide_summarized) =>
        LET bearing == {i \in 0..(Len(chat') - 1) : Msg(chat', i).tr_summary # 0}
            K == settings.keep_recent_count
        IN /\ \A i \in bearing :
                 Msg(chat', i).is_system <=>
                     Cardinality({j \in bearing : j <= i})
                         <= Cardinality(bearing) - K
           /\ autoHideSummarizedMessages(chat', settings) = chat']_vars

\* C21 as stated: in every state between two handlers, after any sequence
\* of summarizeMessage (also on an already summarized message),
\* summarizeScene, summary edits and clearAllSummaries, the entries of
\* memoryCache of type message and scene are exactly those loadMemoryData
\* would produce from the chat: one per summary-bearing message and one per
\* scene end, with the current text, none stale and none twice.
C21_CacheMatchesRebuild ==
    LET key(m) == <<m.type, m.mesId, m.summary>>
        derived == {k \in 1..Len(memoryCache) :
                       memoryCache[k].type \in {"message", "scene"}}
        rebuilt == LoadedCache(chat, 0, now)
    IN /\ {key(memoryCache[k]) : k \in derived} =
              {key(rebuilt[k]) : k \in 1..Len(rebuilt)}
       /\ Cardinality(derived) = Len(rebuilt)

\* C22 as stated: every loadMemoryData step retains the cache entries of
\* type custom verbatim: the custom entries after the rebuild are the
\* custom entries before it.
C22_CustomEntriesRetained ==
    [][lastOp'.op = "loadMemoryData" =>
          CustomEntries(memoryCache') = CustomEntries(memoryCache)]_vars

\* C23 as stated: the cached watermark that getLastSceneEnd() returns is
\* in every state the highest message index marked as scene end, -1 if
\* there is none.
C23_CachedWatermarkCurrent ==
    lastSceneEnd = Watermark(chat)

\* C24 as stated: after every clearAllSummaries step no message carries a
\* summary, a summarized-at time, a scene-end mark, a scene summary or a
\* scene start, and the count returned is the number of messages from
\* which at least one field was removed, a message with both a message
\* summary and a scene summary counted once.
C24_ClearRemovesAllCountsMessages ==
    [][lastOp'.op = "clearAllSummaries" =>
          /\ \A i \in 0..(Len(chat') - 1) :
                /\ Msg(chat', i).tr_summary = 0
                /\ Msg(chat', i).tr_summarized_at = 0
                /\ ~Msg(chat', i).tr_scene_end
                /\ Msg(chat', i).tr_scene_summary = 0
                /\ Msg(chat', i).tr_scene_start = -1
          /\ lastOp'.ret = Cardinality({i \in 0..(Len(chat) - 1) :
                                           Msg(chat', i) # Msg(chat, i)})]_vars

\* C25: every updateChapter(k, text) step with 1 <= k <= count replaces the
\* summary of the k-th chapter by text, leaves its start and end message
\* ids, the number of chapters and every other chapter unchanged, saves the
\* list and returns true; with k outside [1, count] it changes neither the
\* list nor the saved list and returns false.
C25_UpdateOnlySummary ==
    [][lastOp'.op = "updateChapter" =>
        LET k   == lastOp'.args[1]
            old == timelineData
            new == timelineData'
        IN IF k >= 1 /\ k <= Len(old)
           THEN /\ lastOp'.ret = TRUE
                /\ Len(new) = Len(old)
                /\ new[k].summary = lastOp'.info
                /\ new[k].startMsgId = old[k].startMsgId
                /\ new[k].endMsgId = old[k].endMsgId
                /\ \A j \in 1..Len(old) : j # k => new[j] = old[j]
                /\ tr_timeline' = Saved(new)
           ELSE /\ lastOp'.ret = FALSE
                /\ new = old
                /\ tr_timeline' = tr_timeline]_vars

\* The summary of the first of two chapters with different ranges was
\* replaced by a text other than the second chapter's.
C25_Witness ==
    /\ lastOp.op = "updateChapter" /\ lastOp.ret = TRUE /\ lastOp.args[1] = 1
    /\ Len(timelineData) = 2
    /\ timelineData[1].summary # timelineData[2].summary
    /\ timelineData[1].startMsgId # timelineData[2].startMsgId

\* C26 as stated: after every savePreset, importPreset, deletePreset and
\* loadPreset step no two stored presets have the same name, and a
\* savePreset step with the name of a stored preset replaces that preset
\* at its position and adds none.
C26_PresetNamesUnique ==
    [][/\ \A j, k \in 1..Len(settings'.presets) :
             j # k => settings'.presets[j].name # settings'.presets[k].name
       /\ (/\ lastOp'.op = "savePreset" /\ lastOp'.ret = TRUE
           /\ FindPreset(settings.presets, Trim(lastOp'.args[1])) > 0) =>
             LET k == FindPreset(settings.presets, Trim(lastOp'.args[1])) IN
             /\ Len(settings'.presets) = Len(settings.presets)
             /\ settings'.presets[k].name = Trim(lastOp'.args[1])
             /\ \A j \in 1..Len(settings.presets) :
                   j # k => settings'.presets[j] = settings.presets[j]]_vars

\* C27: in every savings report potentialSaved is the sum, over the
\* visible messages with a summary, of body tokens minus summary tokens,
\* whatever the replace-with-summary setting is; with the setting on, saved
\* equals potentialSaved and current counts the summary tokens of the
\* summarized messages and the body tokens of the others; with it off,
\* current equals original and saved is 0.
C27_PotentialSavings ==
    lastOp.op = "getTotalSavings" =>
        LET r == lastOp.ret
            visible == {i \in 0..(Len(chat) - 1) : ~Msg(chat, i).is_system}
            summarized == {i \in visible : Msg(chat, i).tr_summary # 0}
            gain == SumSeq([k \in 1..Len(chat) |->
                               IF (k - 1) \in summarized
                               THEN chat[k].mes - chat[k].tr_summary ELSE 0])
            bodies == SumSeq([k \in 1..Len(chat) |->
                                 IF (k - 1) \in visible THEN chat[k].mes ELSE 0])
        IN /\ r.potentialSaved = gain
           /\ r.original = bodies
           /\ settings.replace_with_summary =>
                 r.saved = r.potentialSaved /\ r.current = bodies - gain
           /\ ~settings.replace_with_summary =>
                 r.current = r.original /\ r.saved = 0

\* A report, with replacement off, over a chat with a visible summarized
\* message that saves tokens and a hidden summarized message.
C27_Witness ==
    /\ lastOp.op = "getTotalSavings" /\ ~settings.replace_with_summary
    /\ lastOp.ret.potentialSaved > 0
    /\ \E i \in 0..(Len(chat) - 1) :
          Msg(chat, i).is_system /\ Msg(chat, i).tr_summary # 0
             /\ Msg(chat, i).mes # Msg(chat, i).tr_summary

C29_NoTwoInFlightOnOneMessage ==
    \A a, b \in 1..Len(run.tasks) :
       (a # b /\ run.tasks[a].pc = "await" /\ run.tasks[b].pc = "await") =>
          run.tasks[a].mesId # run.tasks[b].mesId

\* C30: summarizeMessage, summarizeScene, summarizeAllMessages,
\* clearAllSummaries and autoFillChapters, auto-hide included, leave the
\* number and order of the message records and every author and body as
\* they were; summarizeMessage(i) leaves the summary, summarized_at and
\* scene fields of every other message and the scene fields of message i
\* unchanged, and the only other thing it changes is the hidden flag that
\* the auto-hide batch sets when auto-hide is enabled.
C30_CoreOpsKeepRecords ==
    [][lastOp'.op \in {"summarizeMessage", "summarizeScene",
                       "summarizeAllMessages", "clearAllSummaries",
                       "autoFillChapters"} =>
          /\ Len(chat') = Len(chat)
          /\ \A k \in 1..Len(chat) :
                /\ chat'[k].mes = chat[k].mes
                /\ chat'[k].is_user = chat[k].is_user
          /\ lastOp'.op = "summarizeMessage" =>
                \A k \in 1..Len(chat) :
                   /\ k # lastOp'.args[1] + 1 =>
                         /\ chat'[k].tr_summary = chat[k].tr_summary
                         /\ chat'[k].tr_summarized_at = chat[k].tr_summarized_at
                   /\ chat'[k].tr_scene_end = chat[k].tr_scene_end
                   /\ chat'[k].tr_scene_summary = chat[k].tr_scene_summary
                   /\ chat'[k].tr_scene_start = chat[k].tr_scene_start
                   /\ chat'[k].is_system # chat[k].is_system =>
                         /\ settings.auto_hide_summarized
                         /\ chat'[k].is_system
                         /\ chat'[k].tr_summary # 0]_vars

\* summarizeMessage has written a summary, with auto-hide on, on a chat
\* where another message carries a summary, one is a scene end and one
\* has been hidden.
C30_Witness ==
    /\ lastOp.op = "summarizeMessage" /\ lastOp.ret # 0
    /\ settings.auto_hide_summarized
    /\ \E j \in 0..(Len(chat) - 1) :
          j # lastOp.args[1] /\ Msg(chat, j).tr_summary # 0
             /\ Msg(chat, j).is_system
    /\ \E j \in 0..(Len(chat) - 1) : Msg(chat, j).tr_scene_end

RenderStep ==
    lastOp'.op = "CHARACTER_MESSAGE_RENDERED" /\ run'.events = run.events + 1

\* A MESSAGE_EDITED event has just been handled.
EditStep == lastOp'.op = "MESSAGE_EDITED" /\ run'.events = run.events + 1

\* The positions in a handler's calls that its branch `kind` made.
CallsOf(tr, kind) == {k \in 1..Len(tr) : tr[k].kind = kind}

\* The render of m is answered by swipe re-summarization.
SwipeBranch(m) ==
    /\ run.lastSwipeId = m
    /\ settings.enable_message_summary /\ settings.auto_summarize_on_swipe

\* The render of m is answered by continue re-summarization.
ContinueBranch(m) ==
    /\ ~SwipeBranch(m)
    /\ run.lastMessageId = m
    /\ settings.enable_message_summary
    /\ settings.auto_summarize_on_continue
    /\ Msg(chat, m).tr_summary # 0

\* The render of m is processed normally.
NormallyProcessed(m) == ~SwipeBranch(m) /\ ~ContinueBranch(m)

\* C32: after MESSAGE_SWIPED(m) the swipe of m is pending; a render of m
\* with message summaries and re-summarize-on-swipe enabled calls
\* summarizeMessage(m) exactly once, with the pending swipe already cleared
\* when the call is made, and makes no other call; with the setting
\* disabled the pending swipe is cleared and the render is processed
\* further; a render of another index makes no swipe call and leaves the
\* pending swipe as it was.
C32_SwipeResummarization ==
    [][/\ (lastOp'.op = "MESSAGE_SWIPED" /\ run'.events = run.events + 1) =>
              run'.lastSwipeId = lastOp'.args[1]
       /\ RenderStep =>
            LET m == lastOp'.args[1]
                tr == lastOp'.trace
                on == settings.enable_message_summary
                      /\ settings.auto_summarize_on_swipe
            IN /\ (run.lastSwipeId = m /\ on) =>
                    /\ Len(tr) = 1
                    /\ tr[1].kind = "swipe" /\ tr[1].target = <<m>>
                    /\ tr[1].swipe = -1
                    /\ run'.lastSwipeId = -1
                    /\ run'.lastMessageId = run.lastMessageId
               /\ (run.lastSwipeId = m /\ ~on) =>
                    /\ run'.lastSwipeId = -1
                    /\ CallsOf(tr, "swipe") = {}
                    /\ \/ run'.lastMessageId = m
                       \/ ContinueBranch(m) /\ CallsOf(tr, "continue") = {1}
               /\ run.lastSwipeId # m =>
                    /\ CallsOf(tr, "swipe") = {}
                    /\ run'.lastSwipeId = run.lastSwipeId]_vars

\* A swipe of a message was followed by a render of it that re-summarized
\* it, while auto-summarize had older messages to work on.
C32_Witness ==
    /\ lastOp.op = "CHARACTER_MESSAGE_RENDERED"
    /\ run.events = 2 /\ run.lastSwipeId = -1 /\ run.lastMessageId = -1
    /\ Len(lastOp.trace) = 1 /\ lastOp.trace[1].kind = "swipe"
    /\ lastOp.trace[1].ret # 0
    /\ settings.auto_summarize /\ settings.summary_delay_messages = 1
    /\ lastOp.args[1] >= 2 /\ Msg(chat, 1).tr_summary = 0

\* C33: a render makes a continue call only for the index of the previous
\* normally processed render, with re-summarize-on-continue enabled and a
\* summary already on the message; an edit makes a call only with
\* re-summarize-on-edit enabled and a summary already on the message; and
\* a continue of a message without a summary is processed normally.
C33_ContinueAndEditNeedSummary ==
    [][/\ RenderStep =>
            LET m == lastOp'.args[1]
                tr == lastOp'.trace
            IN /\ CallsOf(tr, "continue") # {} =>
                    /\ run.lastMessageId = m
                    /\ settings.auto_summarize_on_continue
                    /\ Msg(chat, m).tr_summary # 0
                    /\ Len(tr) = 1 /\ tr[1].target = <<m>>
               /\ (run.lastMessageId = m /\ ~SwipeBranch(m)
                   /\ Msg(chat, m).tr_summary = 0) =>
                    /\ CallsOf(tr, "continue") = {}
                    /\ run'.lastMessageId = m
                    /\ \A k \in 1..Len(tr) : tr[k].kind \in {"scene", "auto"}
       /\ EditStep =>
            LET m == lastOp'.args[1]
                tr == lastOp'.trace
            IN /\ tr # <<>> =>
                    /\ settings.auto_summarize_on_edit
                    /\ Msg(chat, m).tr_summary # 0
                    /\ Len(tr) = 1 /\ tr[1].target = <<m>>
               /\ chat' # chat => tr # <<>>]_vars

\* A message with a summary was rendered twice and the second render
\* re-summarized it.
C33_Witness ==
    /\ lastOp.op = "CHARACTER_MESSAGE_RENDERED" /\ run.events = 2
    /\ run.lastMessageId = lastOp.args[1]
    /\ Len(lastOp.trace) = 1 /\ lastOp.trace[1].kind = "continue"
    /\ lastOp.trace[1].ret # 0
    /\ Msg(chat, lastOp.args[1]).tr_summary = lastOp.trace[1].ret

\* C34: a normally processed render of m calls summarizeScene(p + 1, m),
\* p = findLastSceneEnd(m), exactly when scene mode is on, the interval N
\* is positive and m - p >= N; and when that call throws the render still
\* records m and auto-summarizes the older messages.
C34_AutoSceneAtInterval ==
    [][RenderStep =>
        LET m == lastOp'.args[1]
            tr == lastOp'.trace
            p == findLastSceneEnd(chat, m)
            due == /\ settings.enable_scene_mode
                   /\ settings.auto_scene_interval > 0
                   /\ m - p >= settings.auto_scene_interval
        IN /\ ~NormallyProcessed(m) => CallsOf(tr, "scene") = {}
           /\ NormallyProcessed(m) =>
                /\ CallsOf(tr, "scene") = (IF due THEN {1} ELSE {})
                /\ due => tr[1].target = <<p + 1, m>>
                /\ (due /\ tr[1].threw) =>
                     /\ run'.lastMessageId = m
                     /\ (settings.enable_message_summary
                         /\ settings.auto_summarize
                         /\ settings.auto_summarize_user
                         /\ settings.summary_delay_messages = 1
                         /\ m >= 1 /\ ~Msg(chat, 0).is_system
                         /\ Msg(chat, 0).tr_summary = 0) =>
                            CallsOf(tr, "auto") # {}]_vars

\* A render reached the interval after an earlier scene end, its scene
\* call threw, and an older message was auto-summarized all the same.
C34_Witness ==
    /\ lastOp.op = "CHARACTER_MESSAGE_RENDERED"
    /\ Len(lastOp.trace) = 2
    /\ lastOp.trace[1].kind = "scene" /\ lastOp.trace[1].threw
    /\ lastOp.trace[1].target = <<1, lastOp.args[1]>>
    /\ lastOp.trace[2].kind = "auto" /\ lastOp.trace[2].ret # 0
    /\ Msg(chat, 0).tr_summary # 0

\* The messages a render of m auto-summarizes.
AutoTargets(m) ==
    LET d == IF settings.summary_delay_messages = 0
             THEN 5 ELSE settings.summary_delay_messages
    IN {i \in 0..(Len(chat) - 1) :
            /\ i < m - d
            /\ ~Msg(chat, i).is_system
            /\ Msg(chat, i).tr_summary = 0
            /\ (Msg(chat, i).is_user => settings.auto_summarize_user)}

\* The auto-summarize calls of a render of m are made for exactly the
\* messages of AutoTargets(m), once each, in ascending order.
AutoCallsAre(m, tr) ==
    /\ {tr[k].target : k \in CallsOf(tr, "auto")}
            = {<<i>> : i \in AutoTargets(m)}
    /\ \A j, k \in CallsOf(tr, "auto") :
            j < k => tr[j].target[1] < tr[k].target[1]

C37_SceneHidesItsRange ==
    [][lastOp'.op \in {"sceneBtn", "trSceneEnd"} =>
        LET startId == lastOp'.args[1]
            endId == lastOp'.args[2]
            hides == /\ ~lastOp'.err /\ lastOp'.ret # 0
                     /\ settings.hide_summarized_scenes
        IN /\ Len(chat') = Len(chat)
           /\ \A i \in 0..(Len(chat) - 1) :
                Msg(chat', i).is_system =
                    IF hides /\ startId <= i /\ i < endId
                    THEN TRUE ELSE Msg(chat, i).is_system]_vars

\* A scene over messages 1..2 was summarized with hiding on: message 1 is
\* hidden, the end message 2 and message 0 before the scene are visible.
C37_Witness ==
    /\ lastOp.op \in {"sceneBtn", "trSceneEnd"}
    /\ ~lastOp.err /\ lastOp.ret # 0 /\ lastOp.args = <<1, 2>>
    /\ settings.hide_summarized_scenes
    /\ Msg(chat, 1).is_system
    /\ ~Msg(chat, 2).is_system /\ ~Msg(chat, 0).is_system

\* C36 as stated: when autoFillChapters creates a scene over a block, no
\* message of the block is marked as a scene end at that moment, whoever
\* marked it.
C36_FillNeverCoversSceneEnd ==
    [][(run.op = "autoFillChapters" /\ run.pc = "await"
        /\ run'.pc = "loop" /\ chat' # chat) =>
          \A j \in run.start..(run.start + run.interval - 1) :
              ~isSceneEnd(chat, j)]_vars

\* C38 as stated: when generateText returns to a summarizeMessage or
\* summarizeScene call during whose suspension another chat was opened,
\* nothing is added to the memory cache of the open chat and no message of
\* the open chat is written.
C38_NoSummaryAcrossChats ==
    [][(run.task.kind # "none" /\ run'.task.kind = "none"
        /\ run.task.stale /\ run.chatId \notin {0, run.task.chatId}) =>
          /\ memoryCache' = memoryCache
          /\ chat' = chat]_vars

\* C39 as stated: a render re-summarizes for a swipe only when the
\* pending swipe was made in the chat that is open, and for a continue
\* only when the previous render of the index was made in the chat that
\* is open.
C39_NoFlagAcrossChats ==
    [][(lastOp'.op = "CHARACTER_MESSAGE_RENDERED"
        /\ run'.events = run.events + 1) =>
          /\ CallsOf(lastOp'.trace, "swipe") # {} =>
                run.swipeChat = run.chatId
          /\ CallsOf(lastOp'.trace, "continue") # {} =>
                run.renderChat = run.chatId]_vars

\* C40 as stated: the send buttons are deactivated whenever a request
\* issued by generateText is in flight, and active when none is.
C40_ButtonsOffWhileInFlight ==
    (\E n \in 1..Len(run.calls) : run.calls[n].pc = "request")
        <=> ~run.sendButtons

====
